---- MODULE Spec2Model ----
(***************************************************************************)
(* Verification model of vivo-us/request-handler.                          *)
(*                                                                         *)
(* The specifications of this module:                                      *)
(*   SpecFleet    - instance membership and client ownership               *)
(*                  (requestHandler/updateClientRoles, startRedis)         *)
(*   SpecAdmit    - the per-client admission pipeline (processRequests,    *)
(*                  the rate-limit policies, freeze/thaw, heartbeats)      *)
(*   SpecRetry    - the originator's handleRequest retry loop              *)
(*   SpecThaw     - freeze and thaw of one controller                      *)
(*   SpecGen      - the clients one instance generates, of every type      *)
(*   SpecDefaults - the request defaults applied to a caller's config      *)
(*   SpecPre      - a failure between admission and the HTTP call          *)
(* Each specification leaves the variables of the others unchanged.        *)
(***************************************************************************)
EXTENDS Integers, Sequences, FiniteSets, TLC

None == "none"

(***************************************************************************)
(* Part I - the fleet: membership and ownership                            *)
(***************************************************************************)

\* number of instances in the fleet
NInst == 3
\* capacity of one subscriber connection's queue of undelivered messages
MaxInbox == 2
\* number of crashes and stalls in one behaviour
MaxFaults == 1
\* number of stop() calls in one behaviour
MaxStops == 1

Inst == 1..NInst

\* RequestHandler.priority: instance 1 has the default priority 1, the
\* others priority 2, so that the highest instances tie on priority and the
\* id decides.
Priority(i) == IF i = 1 THEN 1 ELSE 2

ClientNames == {"default", "b"}

\* The clients instance i's generators produce: the highest instance does
\* not register "b".
Generates(i) == IF i = NInst THEN {"default"} ELSE ClientNames

VARIABLES
  status,             \* RequestHandler.status
  running,            \* "up", "stalled" (event loop blocked) or "crashed"
  subscribed,         \* the redisListener subscription exists
  clients,            \* RequestHandler.clients: name -> role of the client ("absent" when not in the map)
  heartbeatTimeouts,  \* RequestHandler.heartbeatTimeouts: ids with an armed timer
  heartbeatInterval,  \* RequestHandler.heartbeatInterval is set
  redisInstances,     \* Redis set <prefix>:instances
  redisInstance,      \* Redis keys <prefix>:instance:<id>: the persisted metadata or NoKey
  fInbox,             \* per subscriber connection, the published messages not yet handled
  faults,             \* crashes and stalls so far
  stops               \* stop() calls so far

fleetVars == <<status, running, subscribed, clients, heartbeatTimeouts,
               heartbeatInterval, redisInstances, redisInstance, fInbox,
               faults, stops>>

VARIABLES
  limitType,          \* rateLimit.type of the client: "requestLimit" or "concurrencyLimit"
  reqAttr,            \* per request: priority, timestamp and cost given by its RequestConfig
  client,             \* the client object of the instance under study
  net,                \* the published messages not yet handled, in order of publication
  failures,           \* failed responses and dead originators so far
  req,                \* per request: the handleRequest call that originated it
  roleChanges,        \* updateRole calls that changed a role so far
  limitUpdates,       \* rateLimitUpdated messages published so far
  lastSelect,         \* the last selection of getNextRequest in an admission loop
  lastReady,          \* the last publication of requestReady by the client
  readyCount,         \* per request and retry count: requestReady publications in the fleet so far
  thaw                \* history of the thaw: the requests released during thaw, the successes in a row

admitVars == <<limitType, reqAttr, client, net, failures, req, roleChanges, limitUpdates,
               lastSelect, lastReady, readyCount, thaw>>

VARIABLES
  retryConfig,        \* the retryOptions of the client's configuration (Unset: not given)
  hrPc,               \* position of one handleRequest call
  hrRetries,          \* Request.retries
  hrExecutions,       \* number of this.http.request calls of the handleRequest call
  hrLast              \* the retry data of the last handleRetry

retryVars == <<retryConfig, hrPc, hrRetries, hrExecutions, hrLast>>

VARIABLES
  generators,         \* the client data the generators of the instance return
  registry,           \* RequestHandler.clients: the client object of each name
  calls,              \* the handleRequest calls made through the clients of the registry
  readyLog            \* history: the requestReady messages published, with the publishing client

genVars == <<generators, registry, calls, readyLog>>

VARIABLES
  rdConfig,           \* the RequestConfig the caller hands to handleRequest
  rdDefaults,         \* requestOptions.defaults of the client
  rdResult            \* Request.config once the defaults are applied

defaultsVars == <<rdConfig, rdDefaults, rdResult>>

\* the variables of the parts after the retry loop
VARIABLES
  waiting,            \* per instance, the client names of the handleRequest calls suspended in waitUntilStarted
  apiOutcome          \* how the last call of the public API ended

callVars == <<waiting, apiOutcome>>

laterVars == <<genVars, defaultsVars, callVars>>

Up(i) == running[i] = "up"

\* The instance publishes instanceHeartbeat every second and refreshes its key.
Heartbeating(i) == Up(i) /\ heartbeatInterval[i]

\* RequestHandler.getMetadata: registeredClients are the keys of the client map.
getMetadata(i, cl) ==
  [present |-> TRUE, registeredClients |-> {c \in ClientNames : cl[c] # "absent"}]

\* The value of a key that does not exist.
NoKey == [present |-> FALSE, registeredClients |-> {}]

\* The sort of getClientsBefore: j is placed before i.
SortsBefore(j, i) ==
  \/ Priority(j) > Priority(i)
  \/ Priority(j) = Priority(i) /\ j > i

\* getInstances: the ids of the set whose key is missing are removed from the set.
MissingInstances(i) == {id \in redisInstances \ {i} : ~redisInstance[id].present}

FoundInstances(i) == {id \in redisInstances \ {i} : redisInstance[id].present}

\* getClientsBefore: the clients registered by the instances sorted before i.
getClientsBefore(i) ==
  UNION {redisInstance[j].registeredClients : j \in {k \in FoundInstances(i) : SortsBefore(k, i)}}

NewRole(i, c) == IF c \in getClientsBefore(i) THEN "worker" ELSE "controller"

\* The roles of i's clients after the loop of updateClientRoles over the map cl.
RolesAfter(i, cl) == [c \in ClientNames |-> IF cl[c] = "absent" THEN "absent" ELSE NewRole(i, c)]

\* A message published on a channel reaches every subscribed, running
\* connection except the publisher's own: every instance handler returns at
\* once on a message that carries its own id.
Recipients(i) == {j \in Inst \ {i} : subscribed[j] /\ running[j] # "crashed"}

Room(i, n) == \A j \in Recipients(i) : Len(fInbox[j]) + n <= MaxInbox

Publish(inb, i, msgs) ==
  [j \in Inst |-> IF j \in Recipients(i) THEN inb[j] \o msgs ELSE inb[j]]

\* An updateClientRoles that registers and publishes instanceUpdated whether
\* a role has changed or not.
updateClientRolesAlwaysPublishes(i, isStartup, cl, inb) ==
  LET after == RolesAfter(i, cl)
      msgs == (IF isStartup THEN <<[type |-> "instanceStarted", id |-> i]>> ELSE <<>>)
              \o <<[type |-> "instanceUpdated", id |-> i]>>
      removed == redisInstances \ MissingInstances(i)
  IN /\ clients' = [clients EXCEPT ![i] = after]
     /\ Room(i, Len(msgs))
     /\ redisInstance' = [redisInstance EXCEPT ![i] = getMetadata(i, after)]
     /\ redisInstances' = IF isStartup THEN removed \cup {i} ELSE removed
     /\ fInbox' = Publish(inb, i, msgs)
     /\ heartbeatInterval' = [heartbeatInterval EXCEPT ![i] = TRUE]

\* updateClientRoles(isStartup), run by instance i on the client map cl, with
\* inb the inboxes once the handled message is removed.
updateClientRoles(i, isStartup, cl, inb) ==
  LET after == RolesAfter(i, cl)
      hasChanges == after # cl
      msgs == (IF isStartup THEN <<[type |-> "instanceStarted", id |-> i]>> ELSE <<>>)
              \o (IF hasChanges THEN <<[type |-> "instanceUpdated", id |-> i]>> ELSE <<>>)
      removed == redisInstances \ MissingInstances(i)
  IN /\ clients' = [clients EXCEPT ![i] = after]
     /\ IF ~hasChanges /\ ~isStartup
        THEN /\ redisInstances' = removed
             /\ UNCHANGED <<redisInstance, heartbeatInterval>>
             /\ fInbox' = inb
        ELSE \* updateInstanceRegistration
             /\ Room(i, Len(msgs))
             /\ redisInstance' = [redisInstance EXCEPT ![i] = getMetadata(i, after)]
             /\ redisInstances' = IF isStartup THEN removed \cup {i} ELSE removed
             /\ fInbox' = Publish(inb, i, msgs)
             /\ heartbeatInterval' = [heartbeatInterval EXCEPT ![i] = TRUE]

Pop(i) == [fInbox EXCEPT ![i] = Tail(fInbox[i])]

Head1(i) == Head(fInbox[i])

Handles(i, type) ==
  /\ Up(i)
  /\ fInbox[i] # <<>>
  /\ Head1(i).type = type

\* start: subscribe, create the clients of the generators (all workers),
\* compute ownership with isStartup, become started.
Start(i) ==
  /\ Up(i)
  /\ status[i] = "stopped"
  /\ status' = [status EXCEPT ![i] = "started"]
  /\ subscribed' = [subscribed EXCEPT ![i] = TRUE]
  /\ updateClientRoles(i, TRUE,
        [c \in ClientNames |-> IF c \in Generates(i) THEN "worker" ELSE "absent"],
        fInbox)
  /\ UNCHANGED <<running, heartbeatTimeouts>>
  /\ UNCHANGED <<faults, stops>>
  /\ UNCHANGED <<admitVars, retryVars, laterVars>>

\* RequestHandler.stop
Stop(i) ==
  /\ Up(i)
  /\ status[i] = "started"
  /\ Room(i, 1)
  /\ status' = [status EXCEPT ![i] = "stopped"]
  /\ redisInstances' = redisInstances \ {i}
  /\ redisInstance' = [redisInstance EXCEPT ![i] = NoKey]
  /\ fInbox' = Publish(fInbox, i, <<[type |-> "instanceStopped", id |-> i]>>)
  /\ heartbeatInterval' = [heartbeatInterval EXCEPT ![i] = FALSE]
  /\ UNCHANGED <<running, subscribed, clients, heartbeatTimeouts>>
  /\ stops < MaxStops /\ stops' = stops + 1 /\ UNCHANGED faults
  /\ UNCHANGED <<admitVars, retryVars, laterVars>>

handleInstanceStarted(i, id, inb) ==
  /\ heartbeatTimeouts' = [heartbeatTimeouts EXCEPT ![i] = @ \cup {id}]
  /\ updateClientRoles(i, FALSE, clients[i], inb)

HandleInstanceStarted(i) ==
  /\ Handles(i, "instanceStarted")
  /\ handleInstanceStarted(i, Head1(i).id, Pop(i))
  /\ UNCHANGED <<status, running, subscribed>>
  /\ UNCHANGED <<faults, stops>>
  /\ UNCHANGED <<admitVars, retryVars, laterVars>>

HandleInstanceUpdated(i) ==
  /\ Handles(i, "instanceUpdated")
  /\ updateClientRoles(i, FALSE, clients[i], Pop(i))
  /\ UNCHANGED <<status, running, subscribed, heartbeatTimeouts>>
  /\ UNCHANGED <<faults, stops>>
  /\ UNCHANGED <<admitVars, retryVars, laterVars>>

\* The heartbeat interval of updateInstanceRegistration at instance id
\* (expire(key, 3), publish instanceHeartbeat) and handleInstanceHeartbeat at
\* instance i, taken together: the heartbeat is published while i's
\* connection has nothing pending and i handles it at once.
HandleInstanceHeartbeat(i, id) ==
  /\ Up(i)
  /\ subscribed[i]
  /\ Heartbeating(id)
  /\ fInbox[i] = <<>>
  /\ IF id \in heartbeatTimeouts[i]
     THEN \* timeout.refresh()
          UNCHANGED <<clients, heartbeatTimeouts, heartbeatInterval,
                      redisInstances, redisInstance, fInbox>>
     ELSE handleInstanceStarted(i, id, fInbox)
  /\ UNCHANGED <<status, running, subscribed>>
  /\ UNCHANGED <<faults, stops>>
  /\ UNCHANGED <<admitVars, retryVars, laterVars>>

handleInstanceStopped(i, id, inb) ==
  /\ heartbeatTimeouts' = [heartbeatTimeouts EXCEPT ![i] = @ \ {id}]
  /\ updateClientRoles(i, FALSE, clients[i], inb)

HandleInstanceStopped(i) ==
  /\ Handles(i, "instanceStopped")
  /\ handleInstanceStopped(i, Head1(i).id, Pop(i))
  /\ UNCHANGED <<status, running, subscribed>>
  /\ UNCHANGED <<faults, stops>>
  /\ UNCHANGED <<admitVars, retryVars, laterVars>>

\* The 3 s TTL of the registration key runs out: only when its owner has not
\* refreshed it, that is, when the owner is not heartbeating.
ExpireKey(i) ==
  /\ redisInstance[i].present
  /\ ~Heartbeating(i)
  /\ redisInstance' = [redisInstance EXCEPT ![i] = NoKey]
  /\ UNCHANGED <<status, running, subscribed, clients, heartbeatTimeouts,
                 heartbeatInterval, redisInstances, fInbox>>
  /\ UNCHANGED <<faults, stops>>
  /\ UNCHANGED <<admitVars, retryVars, laterVars>>

\* The 3 s timer armed by handleInstanceStarted fires: no heartbeat of id was
\* handled for 3 s.  The key of id was last refreshed before its last
\* heartbeat was handled, so it has run out by then.
HeartbeatTimeout(i, id) ==
  /\ Up(i)
  /\ id \in heartbeatTimeouts[i]
  /\ ~Heartbeating(id)
  /\ ~redisInstance[id].present
  /\ handleInstanceStopped(i, id, fInbox)
  /\ UNCHANGED <<status, running, subscribed>>
  /\ UNCHANGED <<faults, stops>>
  /\ UNCHANGED <<admitVars, retryVars, laterVars>>

\* The process dies: nothing of it runs any more and its connections close.
Crash(i) ==
  /\ running[i] # "crashed"
  /\ status[i] = "started"
  /\ running' = [running EXCEPT ![i] = "crashed"]
  /\ fInbox' = [fInbox EXCEPT ![i] = <<>>]
  /\ UNCHANGED <<status, subscribed, clients, heartbeatTimeouts,
                 heartbeatInterval, redisInstances, redisInstance>>
  /\ faults < MaxFaults /\ faults' = faults + 1 /\ UNCHANGED stops
  /\ UNCHANGED <<admitVars, retryVars, laterVars>>

\* The event loop of the instance is blocked: no handler and no timer runs.
Stall(i) ==
  /\ Up(i)
  /\ status[i] = "started"
  /\ running' = [running EXCEPT ![i] = "stalled"]
  /\ UNCHANGED <<status, subscribed, clients, heartbeatTimeouts,
                 heartbeatInterval, redisInstances, redisInstance, fInbox>>
  /\ faults < MaxFaults /\ faults' = faults + 1 /\ UNCHANGED stops
  /\ UNCHANGED <<admitVars, retryVars, laterVars>>

Resume(i) ==
  /\ running[i] = "stalled"
  /\ running' = [running EXCEPT ![i] = "up"]
  /\ UNCHANGED <<status, subscribed, clients, heartbeatTimeouts,
                 heartbeatInterval, redisInstances, redisInstance, fInbox>>
  /\ UNCHANGED <<faults, stops>>
  /\ UNCHANGED <<admitVars, retryVars, laterVars>>

InitFleet ==
  /\ status = [i \in Inst |-> "stopped"]
  /\ running = [i \in Inst |-> "up"]
  /\ subscribed = [i \in Inst |-> FALSE]
  /\ clients = [i \in Inst |-> [c \in ClientNames |-> "absent"]]
  /\ heartbeatTimeouts = [i \in Inst |-> {}]
  /\ heartbeatInterval = [i \in Inst |-> FALSE]
  /\ redisInstances = {}
  /\ redisInstance = [i \in Inst |-> NoKey]
  /\ fInbox = [i \in Inst |-> <<>>]
  /\ faults = 0
  /\ stops = 0

NextFleet ==
  \E i \in Inst :
    \/ Start(i)
    \/ Stop(i)
    \/ HandleInstanceStarted(i)
    \/ HandleInstanceUpdated(i)
    \/ \E id \in Inst \ {i} : HandleInstanceHeartbeat(i, id)
    \/ HandleInstanceStopped(i)
    \/ ExpireKey(i)
    \/ Crash(i)
    \/ Stall(i)
    \/ Resume(i)
    \/ \E id \in Inst \ {i} : HeartbeatTimeout(i, id)

(***************************************************************************)
(* Part II - the admission pipeline of one client name                     *)
(*                                                                         *)
(* One instance's client object runs the code; the other instances of the  *)
(* fleet appear through what they publish.                                 *)
(***************************************************************************)

\* requests submitted to the client
NReq == 2
\* largest RequestConfig.priority
MaxPriority == 2
\* largest Request.timestamp
MaxTimestamp == 2
\* largest RequestConfig.cost
MaxCost == 2
\* rateLimit.maxTokens
MaxTokens == 2
\* rateLimit.tokensToAdd
TokensToAdd == 1
\* largest rateLimit.maxConcurrency
MaxConcurrency == 2
\* retryOptions.thawRequestCount of the configuration
ThawRequestCount == 2
\* retryOptions.maxRetries of the configuration
AdmitMaxRetries == 1
\* number of role changes in one behaviour
MaxRoleChanges == 2
\* number of failed responses and dead originators in one behaviour
MaxFailures == 1
\* number of rateLimitUpdated messages in one behaviour
MaxLimitUpdates == 1

Req == 1..NReq

NoRequest == [requestId |-> 0, status |-> None, priority |-> 0, timestamp |-> 0,
              cost |-> 0, retries |-> 0]

\* Request.getMetadata
requestMetadata(r) ==
  [requestId |-> r, status |-> req[r].status, priority |-> reqAttr[r].priority,
   timestamp |-> reqAttr[r].timestamp, cost |-> reqAttr[r].cost,
   retries |-> req[r].retries]

\* The comparator of the sort in getNextRequest.
compare(a, b) ==
  IF a.status = "inProgress" THEN 1
  ELSE IF b.status = "inProgress" THEN -1
  ELSE IF a.priority = b.priority
       THEN IF a.retries = b.retries
            THEN IF a.timestamp = b.timestamp
                 THEN (IF a.requestId < b.requestId THEN -1 ELSE 1)
                 ELSE a.timestamp - b.timestamp
            ELSE b.retries - a.retries
       ELSE b.priority - a.priority

RECURSIVE BinaryPosition(_, _, _, _)
\* Array.prototype.sort on a short array: the place of x in the sorted prefix,
\* found by binary search with the comparator.
BinaryPosition(x, sorted, left, right) ==
  IF left >= right THEN left
  ELSE LET mid == left + ((right - left) \div 2)
       IN IF compare(x, sorted[mid + 1]) < 0
          THEN BinaryPosition(x, sorted, left, mid)
          ELSE BinaryPosition(x, sorted, mid + 1, right)

InsertAt(seq, pos, x) == SubSeq(seq, 1, pos) \o <<x>> \o SubSeq(seq, pos + 1, Len(seq))

RECURSIVE SortInto(_, _)
SortInto(sorted, rest) ==
  IF rest = <<>> THEN sorted
  ELSE SortInto(InsertAt(sorted, BinaryPosition(Head(rest), sorted, 0, Len(sorted)), Head(rest)),
                Tail(rest))

\* [...this.requests].sort(comparator)
sort(requests) == SortInto(<<>>, requests)

\* Map.has / Map.set / Map.delete on the insertion-ordered map of requests.
MapHas(requests, id) == \E k \in 1..Len(requests) : requests[k].requestId = id

MapSet(requests, request) ==
  IF MapHas(requests, request.requestId)
  THEN [k \in 1..Len(requests) |->
          IF requests[k].requestId = request.requestId THEN request ELSE requests[k]]
  ELSE Append(requests, request)

MapDelete(requests, id) == SelectSeq(requests, LAMBDA e : e.requestId # id)

\* The loop at the end of getNextRequest: the first entry with status inQueue.
FirstInQueue(requests) ==
  IF \E k \in 1..Len(requests) : requests[k].status = "inQueue"
  THEN requests[CHOOSE k \in 1..Len(requests) :
                  /\ requests[k].status = "inQueue"
                  /\ \A l \in 1..(k - 1) : requests[l].status # "inQueue"]
  ELSE NoRequest

RECURSIVE getRequestsInProgressCost(_)
getRequestsInProgressCost(requests) ==
  IF requests = <<>> THEN 0
  ELSE (IF Head(requests).status = "inProgress" THEN Head(requests).cost ELSE 0)
       + getRequestsInProgressCost(Tail(requests))

\* The client object after its constructor.
NewClient ==
  [started |-> FALSE, role |-> "worker", requests |-> <<>>, requestsHeartbeat |-> {},
   hasUnsortedRequests |-> FALSE, freezeTimeout |-> FALSE, thawRequestCount |-> 0,
   thawRequestId |-> 0, processingId |-> FALSE, pc |-> "idle", request |-> NoRequest,
   tokens |-> MaxTokens, addTokensInterval |-> FALSE, healthCheckInterval |-> FALSE,
   maxConcurrency |-> MaxConcurrency]

NoSelect == [status |-> None, first |-> TRUE]

NoReady == [requestId |-> 0, retries |-> 0, cost |-> 0, role |-> None,
            frozen |-> FALSE, paid |-> 0]

\* What a piece of client code leaves behind: the client object, the messages
\* it published, and what it selected and admitted.
Result(c, out, sel, pub) == [c |-> c, out |-> out, sel |-> sel, pub |-> pub]

Quiet(c) == Result(c, <<>>, NoSelect, NoReady)

\* a ranks before b in the order of admission.
RanksBefore(a, b) ==
  \/ a.priority > b.priority
  \/ a.priority = b.priority /\ a.retries > b.retries
  \/ a.priority = b.priority /\ a.retries = b.retries /\ a.timestamp < b.timestamp
  \/ a.priority = b.priority /\ a.retries = b.retries /\ a.timestamp = b.timestamp
       /\ a.requestId < b.requestId

\* The request is first in rank among the entries with status inQueue
RankedFirst(requests, request) ==
  \A k \in 1..Len(requests) :
    (requests[k].status = "inQueue" /\ requests[k].requestId # request.requestId)
      => RanksBefore(request, requests[k])

\* processRequests, from the break of the loop on: the loop has ended.
LoopEnd(c) == [c EXCEPT !.processingId = FALSE, !.pc = "idle", !.request = NoRequest]

\* A loop that goes on to publish without looking at the freeze timer or at
\* the thaw request.
AfterTurnUnguarded(c, request, paid) ==
  LET ready == [request EXCEPT !.status = "inProgress"]
  IN Result([c EXCEPT !.thawRequestId = IF c.thawRequestCount > 0
                                         THEN request.requestId ELSE 0,
                      !.requests = MapSet(@, ready),
                      !.pc = "readyPublish",
                      !.request = request],
            <<[type |-> "requestReady", data |-> ready]>>,
            NoSelect,
            [requestId |-> request.requestId, retries |-> request.retries,
             cost |-> request.cost, role |-> c.role,
             frozen |-> c.freezeTimeout, paid |-> paid])

\* A loop that looks at the freeze timer and not at the thaw request.
AfterTurnNoThawGate(c, request, paid) ==
  IF c.freezeTimeout
  THEN Quiet(LoopEnd(c))
  ELSE AfterTurnUnguarded(c, request, paid)

\* processRequests, from the return of waitForTurn to the publication of
\* requestReady; paid is what waitForTurn took from the tokens.
AfterTurn(c, request, paid) ==
  IF c.freezeTimeout \/ c.thawRequestId # 0
  THEN Quiet(LoopEnd(c))
  ELSE LET ready == [request EXCEPT !.status = "inProgress"]
       IN Result([c EXCEPT !.thawRequestId = IF c.thawRequestCount > 0
                                              THEN request.requestId ELSE 0,
                           !.requests = MapSet(@, ready),
                           !.pc = "readyPublish",
                           !.request = request],
                 <<[type |-> "requestReady", data |-> ready]>>,
                 NoSelect,
                 [requestId |-> request.requestId, retries |-> request.retries,
                  cost |-> request.cost, role |-> c.role,
                  frozen |-> c.freezeTimeout, paid |-> paid])

\* The first test of waitForTurn: RequestLimitClient finds the tokens,
\* ConcurrencyLimitClient finds the room.
TurnIsFree(c, cost) ==
  IF limitType = "requestLimit"
  THEN c.tokens >= cost
  ELSE c.maxConcurrency >= getRequestsInProgressCost(c.requests) + cost

\* A getNextRequest that clears hasUnsortedRequests and leaves the map in
\* its order of insertion.
getNextRequestUnsorted(c) == [c EXCEPT !.hasUnsortedRequests = FALSE]

\* getNextRequest: the map after the sort that hasUnsortedRequests asks for.
getNextRequest(c) ==
  IF c.hasUnsortedRequests
  THEN [c EXCEPT !.requests = sort(@), !.hasUnsortedRequests = FALSE]
  ELSE c

\* One iteration of the loop of processRequests, up to its first suspension.
LoopIteration(c) ==
  LET c1 == getNextRequest(c)
      request == FirstInQueue(c1.requests)
      sel == [status |-> request.status, first |-> RankedFirst(c1.requests, request)]
  IN IF request = NoRequest THEN Quiet(LoopEnd(c1))
     ELSE IF TurnIsFree(c1, request.cost)
     THEN [AfterTurn(c1, request, 0) EXCEPT !.sel = sel]
     ELSE Result([c1 EXCEPT !.pc = "waitForTurn", !.request = request],
                 <<>>, sel, NoReady)

\* A processRequests that starts a loop without looking at processingId.
processRequestsUnguarded(c) ==
  IF c.role = "worker" THEN Quiet(c)
  ELSE IF c.requests = <<>> THEN Quiet(c)
  ELSE LoopIteration([c EXCEPT !.processingId = TRUE])

processRequests(c) ==
  IF c.role = "worker" THEN Quiet(c)
  ELSE IF c.processingId \/ c.requests = <<>> THEN Quiet(c)
  ELSE LoopIteration([c EXCEPT !.processingId = TRUE])

\* RequestLimitClient.startAddTokensInterval
startAddTokensInterval(c) ==
  IF c.role = "worker" \/ limitType # "requestLimit" THEN c
  ELSE [c EXCEPT !.addTokensInterval = TRUE]

\* An updateRole that does not look at the requests the client holds.
updateRoleWithoutProcessRequests(c, role) ==
  IF role = c.role THEN Quiet(c)
  ELSE Quiet(startAddTokensInterval(
         [c EXCEPT !.role = role, !.healthCheckInterval = TRUE]))

\* Client.updateRole
updateRole(c, role) ==
  IF role = c.role THEN Quiet(c)
  ELSE processRequests(startAddTokensInterval(
         [c EXCEPT !.role = role, !.healthCheckInterval = TRUE]))

handleRequestAdded(c, request) ==
  LET c1 == [c EXCEPT !.requests = MapSet(@, request),
                      !.requestsHeartbeat = @ \cup {request.requestId},
                      !.hasUnsortedRequests = TRUE]
  IN IF c1.role = "worker" THEN Quiet(c1) ELSE processRequests(c1)

handleRequestDied(c, requestId) ==
  [c EXCEPT !.requests = MapDelete(@, requestId),
            !.requestsHeartbeat = @ \ {requestId}]

handleRequestHeartbeat(c, request) ==
  IF request.requestId \in c.requestsHeartbeat THEN Quiet(c)
  ELSE handleRequestAdded(c, request)

\* Client.handleRequestReady, without the event it emits to the originator.
handleRequestReady(c, request) ==
  IF c.role = "worker" THEN [c EXCEPT !.requests = MapSet(@, request)] ELSE c

handleFreezeRequests(c, data) ==
  [c EXCEPT !.tokens = IF limitType = "requestLimit" THEN 0 ELSE @,
            !.thawRequestCount = IF data.isRateLimited THEN ThawRequestCount ELSE @,
            !.freezeTimeout = TRUE]

\* The listener of waitForConcurrency is registered and finds room.
ConcurrencyListenerResolves(c) ==
  /\ limitType = "concurrencyLimit"
  /\ c.pc = "waitForTurn"
  /\ c.maxConcurrency >= getRequestsInProgressCost(c.requests) + c.request.cost

handleRequestDone(c, data) ==
  LET c1 == handleRequestDied(c, data.requestId)
      c2 == IF data.waitTime > 0 THEN handleFreezeRequests(c1, data) ELSE c1
      thaws == data.requestId = c2.thawRequestId
      c3 == IF thaws
            THEN [c2 EXCEPT !.thawRequestCount =
                                IF data.responseStatus = "success" THEN @ - 1 ELSE @,
                            !.thawRequestId = 0]
            ELSE c2
  IN IF c1.role = "worker" THEN Quiet(c1)
     ELSE IF ConcurrencyListenerResolves(c2) THEN AfterTurn(c3, c3.request, 0)
     ELSE IF thaws THEN processRequests(c3)
     ELSE Quiet(c3)

\* RequestLimitClient.handleRateLimitUpdated leaves rateLimit as it is and
\* restarts the interval; ConcurrencyLimitClient.handleRateLimitUpdated takes
\* the new rateLimit.
handleRateLimitUpdated(c, data) ==
  IF data.limitType # limitType THEN c
  ELSE IF limitType = "requestLimit" THEN startAddTokensInterval(c)
  ELSE [c EXCEPT !.maxConcurrency = data.max]

\* A listener of waitForTokens that resolves on every tick, whatever the
\* tokens are.
TokensListenerAlways(c) ==
  /\ limitType = "requestLimit"
  /\ c.pc = "waitForTurn"

\* The listener of waitForTokens is registered and finds the tokens.
TokensListenerResolves(c) ==
  /\ limitType = "requestLimit"
  /\ c.pc = "waitForTurn"
  /\ c.tokens >= c.request.cost

\* An addTokens that does not look at the freeze timer.
addTokensWhileFrozen(c) ==
  IF c.tokens = MaxTokens THEN c
  ELSE IF c.tokens < 0 THEN [c EXCEPT !.tokens = 0]
  ELSE IF c.tokens > MaxTokens THEN [c EXCEPT !.tokens = MaxTokens]
  ELSE LET c1 == [c EXCEPT !.tokens = IF TokensToAdd + c.tokens > MaxTokens
                                       THEN MaxTokens ELSE c.tokens + TokensToAdd]
       IN IF TokensListenerResolves(c1)
          THEN [c1 EXCEPT !.tokens = @ - c1.request.cost, !.pc = "tokensPublish"]
          ELSE c1

\* RequestLimitClient.addTokens and, when the listener of waitForTokens
\* resolves, waitForTurn up to its publication of clientTokensUpdated.
addTokens(c) ==
  IF c.tokens = MaxTokens \/ c.freezeTimeout THEN c
  ELSE IF c.tokens < 0 THEN [c EXCEPT !.tokens = 0]
  ELSE IF c.tokens > MaxTokens THEN [c EXCEPT !.tokens = MaxTokens]
  ELSE LET c1 == [c EXCEPT !.tokens = IF TokensToAdd + c.tokens > MaxTokens
                                       THEN MaxTokens ELSE c.tokens + TokensToAdd]
       IN IF TokensListenerResolves(c1)
          THEN [c1 EXCEPT !.tokens = @ - c1.request.cost, !.pc = "tokensPublish"]
          ELSE c1

\* The callback of the health check interval.
healthCheck(c) ==
  LET c1 == [c EXCEPT !.requests =
                SelectSeq(@, LAMBDA e : e.requestId \in c.requestsHeartbeat)]
  IN IF c1.addTokensInterval THEN c1 ELSE startAddTokensInterval(c1)

Receives(type) == net # <<>> /\ Head(net).type = type

\* The client is left with the result R of a piece of its code; handled tells
\* that the code was the handler of the first message of net.  Redis delivers
\* a message within milliseconds and the timers run for a second or more: a
\* published message is handled before a timer fires and before anything else
\* is published.
\* No request was released during thaw and no rate-limited freeze armed the
\* thaw counter.
NoThaw == [outstanding |-> {}, overlap |-> FALSE, armed |-> FALSE, streak |-> 0,
           early |-> FALSE]

\* The history of the thaw after a piece of the client's code with result R:
\* outstanding are the requests released while thawRequestCount > 0 whose
\* requestDone the client has not handled; overlap tells that one was
\* released while another was outstanding; streak counts the thaw requests
\* that succeeded in a row since handleFreezeRequests armed the counter;
\* early tells that the counter came back to 0 on a shorter streak than the
\* configured thawRequestCount.
ThawAfter(R, handled) ==
  LET isDone == handled /\ client.started /\ Head(net).type = "requestDone"
      data == Head(net).data
      out1 == IF isDone THEN thaw.outstanding \ {data.requestId} ELSE thaw.outstanding
      released == R.pub # NoReady /\ R.c.thawRequestCount > 0
      counts == isDone /\ client.role = "controller"
      arms == counts /\ data.waitTime > 0 /\ data.isRateLimited
      isThaw == counts /\ data.requestId \in thaw.outstanding
      streak1 == IF arms THEN 0
                 ELSE IF isThaw
                 THEN (IF data.responseStatus = "success"
                       THEN (IF thaw.streak < ThawRequestCount THEN thaw.streak + 1
                             ELSE thaw.streak)
                       ELSE 0)
                 ELSE thaw.streak
      armed1 == thaw.armed \/ arms
  IN [outstanding |-> IF released THEN out1 \cup {R.pub.requestId} ELSE out1,
      overlap |-> thaw.overlap \/ (released /\ out1 # {}),
      armed |-> armed1,
      streak |-> streak1,
      early |-> thaw.early \/ (armed1 /\ client.thawRequestCount > 0
                                /\ R.c.thawRequestCount = 0
                                /\ streak1 < ThawRequestCount)]

Apply(R, handled) ==
  /\ handled \/ net = <<>>
  /\ thaw' = ThawAfter(R, handled)
  /\ client' = R.c
  /\ net' = (IF handled THEN Tail(net) ELSE net) \o R.out
  /\ lastSelect' = IF R.sel = NoSelect THEN lastSelect ELSE R.sel
  /\ lastReady' = IF R.pub = NoReady THEN lastReady ELSE R.pub
  /\ readyCount' = IF R.pub = NoReady THEN readyCount
                    ELSE [readyCount EXCEPT ![R.pub.requestId][R.pub.retries] =
                            IF @ < 2 THEN @ + 1 ELSE @]

\* handleRedisMessage hands the message to the client when the instance has one.
IfStarted(R) == IF client.started THEN R ELSE Quiet(client)

\* redis.publish by another party than the client
Publish1(msg) ==
  /\ net = <<>>
  /\ net' = Append(net, msg)

\* startRedis and createClient: the instance joins the fleet with a new client.
CreateClient ==
  /\ ~client.started
  /\ net = <<>>
  /\ client' = [NewClient EXCEPT !.started = TRUE]
  /\ UNCHANGED <<limitType, reqAttr, net, failures, req, roleChanges, limitUpdates,
                 lastSelect, lastReady, readyCount>>
  /\ UNCHANGED thaw
  /\ UNCHANGED <<fleetVars, retryVars, laterVars>>

\* updateClientRoles gives the client a new role.
UpdateRole(role) ==
  /\ client.started
  /\ role # client.role
  /\ roleChanges < MaxRoleChanges
  /\ roleChanges' = roleChanges + 1
  /\ Apply(updateRole(client, role), FALSE)
  /\ UNCHANGED <<limitType, reqAttr, failures, req, limitUpdates>>
  /\ UNCHANGED <<fleetVars, retryVars, laterVars>>

HandleRequestAdded ==
  /\ Receives("requestAdded")
  /\ Apply(IfStarted(handleRequestAdded(client, Head(net).data)), TRUE)
  /\ UNCHANGED <<limitType, reqAttr, failures, req, roleChanges, limitUpdates>>
  /\ UNCHANGED <<fleetVars, retryVars, laterVars>>

\* The heartbeat interval of handleRequest publishes the metadata of request r
\* while nothing is pending, and the client handles it.
HandleRequestHeartbeat(r) ==
  /\ client.started
  /\ net = <<>>
  /\ req[r].beating
  /\ Apply(handleRequestHeartbeat(client, requestMetadata(r)), FALSE)
  /\ UNCHANGED <<limitType, reqAttr, failures, req, roleChanges, limitUpdates>>
  /\ UNCHANGED <<fleetVars, retryVars, laterVars>>

\* handleRequestReady at the client and, at the originator's instance, the
\* listener of waitForRequestReady.
HandleRequestReady ==
  /\ Receives("requestReady")
  /\ LET request == Head(net).data
         r == request.requestId
     IN /\ Apply(IfStarted(Quiet(handleRequestReady(client, request))), TRUE)
        /\ req' = IF req[r].phase = "waiting"
                   THEN [req EXCEPT ![r].phase = "executing", ![r].status = "inProgress"]
                   ELSE req
  /\ UNCHANGED <<limitType, reqAttr, failures, roleChanges, limitUpdates>>
  /\ UNCHANGED <<fleetVars, retryVars, laterVars>>

HandleRequestDone ==
  /\ Receives("requestDone")
  /\ Apply(IfStarted(handleRequestDone(client, Head(net).data)), TRUE)
  /\ UNCHANGED <<limitType, reqAttr, failures, req, roleChanges, limitUpdates>>
  /\ UNCHANGED <<fleetVars, retryVars, laterVars>>

HandleRateLimitUpdated ==
  /\ Receives("rateLimitUpdated")
  /\ Apply(IfStarted(Quiet(handleRateLimitUpdated(client, Head(net).data))), TRUE)
  /\ UNCHANGED <<limitType, reqAttr, failures, req, roleChanges, limitUpdates>>
  /\ UNCHANGED <<fleetVars, retryVars, laterVars>>

\* The callback of the addTokens interval.
AddTokens ==
  /\ limitType = "requestLimit"
  /\ client.addTokensInterval
  /\ Apply(Quiet(addTokens(client)), FALSE)
  /\ UNCHANGED <<limitType, reqAttr, failures, req, roleChanges, limitUpdates>>
  /\ UNCHANGED <<fleetVars, retryVars, laterVars>>

\* The publication of clientTokensUpdated in waitForTurn returns: nobody is
\* subscribed to that channel.
LoopTokensPublished ==
  /\ client.pc = "tokensPublish"
  /\ Apply(AfterTurn(client, client.request, client.request.cost), FALSE)
  /\ UNCHANGED <<limitType, reqAttr, failures, req, roleChanges, limitUpdates>>
  /\ UNCHANGED <<fleetVars, retryVars, laterVars>>

\* The publication of requestReady in processRequests returns.
LoopReadyPublished ==
  /\ client.pc = "readyPublish"
  /\ Apply(IF client.thawRequestCount > 0 \/ client.requests = <<>>
           THEN Quiet(LoopEnd(client))
           ELSE LoopIteration(client),
           FALSE)
  /\ UNCHANGED <<limitType, reqAttr, failures, req, roleChanges, limitUpdates>>
  /\ UNCHANGED <<fleetVars, retryVars, laterVars>>

\* The timer of handleFreezeRequests fires.
FreezeTimeoutFires ==
  /\ client.freezeTimeout
  /\ Apply(processRequests([client EXCEPT !.freezeTimeout = FALSE]), FALSE)
  /\ UNCHANGED <<limitType, reqAttr, failures, req, roleChanges, limitUpdates>>
  /\ UNCHANGED <<fleetVars, retryVars, laterVars>>

\* The timer of handleRequestAdded fires: no heartbeat of r was handled for 3 s.
RequestDied(r) ==
  /\ r \in client.requestsHeartbeat
  /\ ~req[r].beating
  /\ Apply(Quiet(handleRequestDied(client, r)), FALSE)
  /\ UNCHANGED <<limitType, reqAttr, failures, req, roleChanges, limitUpdates>>
  /\ UNCHANGED <<fleetVars, retryVars, laterVars>>

HealthCheck ==
  /\ client.healthCheckInterval
  /\ Apply(Quiet(healthCheck(client)), FALSE)
  /\ UNCHANGED <<limitType, reqAttr, failures, req, roleChanges, limitUpdates>>
  /\ UNCHANGED <<fleetVars, retryVars, laterVars>>

(***************************************************************************)
(* Part III - the retry loop of handleRequest                              *)
(***************************************************************************)

\* largest maxRetries a configuration gives
MaxCfgRetries == 2

\* the default of retryOptions.maxRetries
DefaultMaxRetries == 3

NotGiven == [given |-> FALSE, val |-> 0]

Given(v) == [given |-> TRUE, val |-> v]

\* JavaScript's (option || dflt) on a number: an option that is not given and
\* an option that is 0 both yield the default.
OrNumber(option, dflt) == IF option.given /\ option.val # 0 THEN option.val ELSE dflt

\* JavaScript's (option || true) on a boolean.
OrTrue(option) == (option.given /\ option.val) \/ TRUE

\* Client constructor: this.retryOptions
retryOptions ==
  [maxRetries |-> OrNumber(retryConfig.maxRetries, DefaultMaxRetries),
   retry429s  |-> OrTrue(retryConfig.retry429s),
   retry5xxs  |-> OrTrue(retryConfig.retry5xxs)]

\* What this.http.request yields: a response status (0: no response) and an
\* error code.
Outcomes ==
  {[status |-> 200, code |-> None], [status |-> 404, code |-> None],
   [status |-> 429, code |-> None], [status |-> 500, code |-> None],
   [status |-> 0, code |-> "ECONNRESET"], [status |-> 0, code |-> "EOTHER"]}

retryableCodes == {"ECONNRESET", "ETIMEDOUT", "ECONNABORTED"}

\* handleBackoff with the exponential method, in units of the backoff base.
handleBackoff(retries) == retries * retries

\* handleRetry on a request with the given retries under the options opts; no
\* retryStatusCodes and no retryHandler are configured.
handleRetry(opts, retries, error) ==
  LET retry ==
        IF retries = opts.maxRetries THEN FALSE
        ELSE IF error.status = 429 /\ opts.retry429s THEN TRUE
        ELSE IF error.status >= 500 /\ opts.retry5xxs THEN TRUE
        ELSE IF error.code \in retryableCodes THEN TRUE
        ELSE FALSE
      isRateLimited == retries # opts.maxRetries /\ error.status = 429 /\ opts.retry429s
  IN [retry |-> retry,
      isRateLimited |-> isRateLimited,
      waitTime |-> IF retry THEN handleBackoff(retries + 1) ELSE 0,
      retries |-> IF retry THEN retries + 1 ELSE retries]

NoRetryData == [retry |-> FALSE, isRateLimited |-> FALSE, waitTime |-> 0, retries |-> 0]

\* handleRequest on a client without rate limit, up to its first HTTP call:
\* waitForRequestReady returns at once.
HandleRequest ==
  /\ hrPc = "idle"
  /\ hrPc' = "http"
  /\ hrRetries' = 0
  /\ UNCHANGED <<retryConfig, hrExecutions, hrLast>>
  /\ UNCHANGED <<fleetVars, admitVars, laterVars>>

\* this.http.request returns or throws, and handleRequest runs on to its next
\* HTTP call, to its return or to its throw.
HttpRequest(outcome) ==
  /\ hrPc = "http"
  /\ hrExecutions' = hrExecutions + 1
  /\ IF outcome.status = 200
     THEN \* handleResponse
          /\ hrPc' = "returned"
          /\ UNCHANGED <<hrRetries, hrLast>>
     ELSE \* handleError
          LET data == handleRetry(retryOptions, hrRetries, outcome)
          IN /\ hrLast' = data
             /\ hrRetries' = data.retries
             /\ hrPc' = IF data.retry /\ data.retries <= retryOptions.maxRetries
                        THEN "http" ELSE "thrown"
  /\ UNCHANGED retryConfig
  /\ UNCHANGED <<fleetVars, admitVars, laterVars>>

InitRetry ==
  /\ retryConfig \in
       [maxRetries : {NotGiven} \cup {Given(n) : n \in 0..MaxCfgRetries},
        retry429s  : {NotGiven, Given(TRUE), Given(FALSE)},
        retry5xxs  : {NotGiven, Given(TRUE), Given(FALSE)}]
  /\ hrPc = "idle"
  /\ hrRetries = 0
  /\ hrExecutions = 0
  /\ hrLast = NoRetryData

NextRetry ==
  \/ HandleRequest
  \/ \E outcome \in Outcomes : HttpRequest(outcome)

(***************************************************************************)
(* Part IV - the originators of the requests of Part II                    *)
(***************************************************************************)

\* this.retryOptions of the client of Part II
admitOptions ==
  [maxRetries |-> OrNumber(Given(AdmitMaxRetries), DefaultMaxRetries),
   retry429s  |-> OrTrue(NotGiven),
   retry5xxs  |-> OrTrue(NotGiven)]

\* A handleRequest that goes back to the top of its loop while the HTTP call
\* of the attempt is still open.
SubmitWhileExecuting(r) ==
  /\ req[r].phase \in {"new", "retrying", "executing"}
  /\ req' = [req EXCEPT ![r].phase = "waiting", ![r].status = "inQueue",
                         ![r].beating = TRUE, ![r].peerReady = FALSE]
  /\ Publish1([type |-> "requestAdded",
               data |-> [requestMetadata(r) EXCEPT !.status = "inQueue"]])
  /\ UNCHANGED <<limitType, reqAttr, client, failures, roleChanges, limitUpdates,
                 lastSelect, lastReady, readyCount>>
  /\ UNCHANGED thaw
  /\ UNCHANGED <<fleetVars, retryVars, laterVars>>

\* handleRequest up to the publication of requestAdded in waitForRequestReady:
\* the status is inQueue, the heartbeat interval runs, the listener waits.
Submit(r) ==
  /\ req[r].phase \in {"new", "retrying"}
  /\ req' = [req EXCEPT ![r].phase = "waiting", ![r].status = "inQueue",
                         ![r].beating = TRUE, ![r].peerReady = FALSE]
  /\ Publish1([type |-> "requestAdded",
               data |-> [requestMetadata(r) EXCEPT !.status = "inQueue"]])
  /\ UNCHANGED <<limitType, reqAttr, client, failures, roleChanges, limitUpdates,
                 lastSelect, lastReady, readyCount>>
  /\ UNCHANGED thaw
  /\ UNCHANGED <<fleetVars, retryVars, laterVars>>

\* The process of the originator dies: its heartbeat interval stops and no
\* requestDone is published.
OriginatorDiesWithin(r, most) ==
  /\ req[r].phase \in {"waiting", "executing"}
  /\ net = <<>>
  /\ failures < most
  /\ failures' = failures + 1
  /\ req' = [req EXCEPT ![r].phase = "dead", ![r].beating = FALSE]
  /\ UNCHANGED <<limitType, reqAttr, client, net, roleChanges, limitUpdates,
                 lastSelect, lastReady, readyCount>>
  /\ UNCHANGED thaw
  /\ UNCHANGED <<fleetVars, retryVars, laterVars>>

OriginatorDies(r) == OriginatorDiesWithin(r, MaxFailures)

\* this.http.request returns or throws: handleResponse or handleError clear
\* the heartbeat interval and publish requestDone.
Responds(r, outcome, most) ==
  /\ req[r].phase = "executing"
  /\ failures' = IF outcome.status = 200 THEN failures ELSE failures + 1
  /\ failures' <= most
  /\ LET data == handleRetry(admitOptions, req[r].retries, outcome)
         success == outcome.status = 200
         done == [requestId |-> r,
                  responseStatus |-> IF success THEN "success" ELSE "failure",
                  waitTime |-> IF success THEN 0 ELSE data.waitTime,
                  isRateLimited |-> ~success /\ data.isRateLimited]
     IN /\ Publish1([type |-> "requestDone", data |-> done])
        /\ req' = [req EXCEPT ![r].beating = FALSE,
                               ![r].phase = IF ~success /\ data.retry
                                            THEN "retrying" ELSE "done",
                               ![r].retries = IF success THEN @ ELSE data.retries]
  /\ UNCHANGED <<limitType, reqAttr, client, roleChanges, limitUpdates,
                 lastSelect, lastReady, readyCount>>
  /\ UNCHANGED thaw
  /\ UNCHANGED <<fleetVars, retryVars, laterVars>>

Respond(r, outcome) == Responds(r, outcome, MaxFailures)

\* processRequests at another instance, which holds the controller role while
\* the client under study does not: it publishes requestReady for a request
\* that waits, once for each requestAdded. The peer runs the same waitForTurn
\* over the same messages, so a concurrency gate lets the request through
\* only when it has the room.
PeerRequestReady(r) ==
  /\ ~client.started \/ client.role = "worker"
  /\ req[r].phase = "waiting"
  /\ limitType = "concurrencyLimit" => TurnIsFree(client, reqAttr[r].cost)
  /\ ~req[r].peerReady
  /\ req' = [req EXCEPT ![r].peerReady = TRUE]
  /\ Publish1([type |-> "requestReady",
               data |-> [requestMetadata(r) EXCEPT !.status = "inProgress"]])
  /\ readyCount' = [readyCount EXCEPT ![r][req[r].retries] = IF @ < 2 THEN @ + 1 ELSE @]
  /\ UNCHANGED <<limitType, reqAttr, client, failures, roleChanges, limitUpdates,
                 lastSelect, lastReady>>
  /\ UNCHANGED thaw
  /\ UNCHANGED <<fleetVars, retryVars, laterVars>>

\* updateRateLimit: a client publishes the rate limit of its configuration or
\* the one its rateLimitChange callback returned.
UpdateRateLimit(max) ==
  /\ limitUpdates < MaxLimitUpdates
  /\ limitUpdates' = limitUpdates + 1
  /\ Publish1([type |-> "rateLimitUpdated",
               data |-> [limitType |-> limitType, max |-> max]])
  /\ UNCHANGED <<limitType, reqAttr, client, failures, req, roleChanges,
                 lastSelect, lastReady, readyCount>>
  /\ UNCHANGED thaw
  /\ UNCHANGED <<fleetVars, retryVars, laterVars>>

\* the responses of the server of Part II
AdmitOutcomes == {o \in Outcomes : o.status \in {200, 404, 429, 500}}

NewRequest == [phase |-> "new", retries |-> 0, status |-> "inQueue", beating |-> FALSE,
               peerReady |-> FALSE]

\* The instance has not joined the fleet and no request is submitted.
InitClient ==
  /\ client = NewClient
  /\ net = <<>>
  /\ failures = 0
  /\ req = [r \in Req |-> NewRequest]
  /\ roleChanges = 0
  /\ limitUpdates = 0
  /\ lastSelect = NoSelect
  /\ lastReady = NoReady
  /\ readyCount = [r \in Req |-> [k \in 0..DefaultMaxRetries |-> 0]]
  /\ thaw = NoThaw

InitAdmit ==
  /\ limitType \in {"requestLimit", "concurrencyLimit"}
  /\ reqAttr \in [Req -> [priority : 1..MaxPriority, timestamp : 1..MaxTimestamp,
                           cost : 1..MaxCost]]
  /\ reqAttr[1].priority = 1 /\ reqAttr[1].timestamp = 1 /\ reqAttr[1].cost = 1
  /\ InitClient

\* no request is submitted to the client
AdmitIdle ==
  /\ limitType = "requestLimit"
  /\ reqAttr = [r \in Req |-> [priority |-> 1, timestamp |-> 1, cost |-> 1]]
  /\ InitClient

NextAdmit ==
  \/ CreateClient
  \/ \E role \in {"worker", "controller"} : UpdateRole(role)
  \/ HandleRequestAdded
  \/ \E r \in Req : HandleRequestHeartbeat(r)
  \/ HandleRequestReady
  \/ HandleRequestDone
  \/ HandleRateLimitUpdated
  \/ AddTokens
  \/ LoopTokensPublished
  \/ LoopReadyPublished
  \/ FreezeTimeoutFires
  \/ \E r \in Req : RequestDied(r)
  \/ HealthCheck
  \/ \E r \in Req :
       \/ Submit(r)
       \/ \E outcome \in AdmitOutcomes : Respond(r, outcome)
       \/ PeerRequestReady(r)
       \/ OriginatorDies(r)
  \/ \E max \in 1..MaxConcurrency : UpdateRateLimit(max)

(***************************************************************************)
(* Part V - freeze and thaw of one controller                              *)
(***************************************************************************)

\* number of failed responses in one behaviour of the thaw
MaxThawFailures == 2

\* this.http.request returns or throws, with the failures the thaw needs: one
\* rate-limited response to arm the counter and one failure during the thaw.
ThawRespond(r, outcome) == Responds(r, outcome, MaxThawFailures)

\* Requests of equal priority, timestamp and cost.
InitThaw ==
  /\ limitType \in {"requestLimit", "concurrencyLimit"}
  /\ reqAttr = [r \in Req |-> [priority |-> 1, timestamp |-> 1, cost |-> 1]]
  /\ InitClient

\* The client is the controller for the whole behaviour and no originator dies.
NextThaw ==
  \/ CreateClient
  \/ UpdateRole("controller")
  \/ HandleRequestAdded
  \/ \E r \in Req : HandleRequestHeartbeat(r)
  \/ HandleRequestReady
  \/ HandleRequestDone
  \/ AddTokens
  \/ LoopTokensPublished
  \/ LoopReadyPublished
  \/ FreezeTimeoutFires
  \/ \E r \in Req :
       \/ Submit(r)
       \/ \E outcome \in AdmitOutcomes : ThawRespond(r, outcome)

(***************************************************************************)
(* Part VI - the clients one instance generates, of every rate limit type  *)
(***************************************************************************)

\* number of handleRequest calls in one behaviour
NCall == 3
\* largest maxConcurrency of a generated client
GenMaxConcurrency == 2
\* maxTokens of a generated requestLimit client
GenMaxTokens == 1

Call == 1..NCall

\* CreateClientData.rateLimit is not given
NoRateLimit == [type |-> None, maxConcurrency |-> 0, maxTokens |-> 0, clientName |-> None]

RateLimit(type, maxConcurrency, maxTokens, clientName) ==
  [type |-> type, maxConcurrency |-> maxConcurrency, maxTokens |-> maxTokens,
   clientName |-> clientName]

\* generateClients is called without a parent
NoParent == [name |-> None, rateLimit |-> NoRateLimit, subClients |-> <<>>]

\* What the generators of the instance may return: a client "api" with a
\* sub-client "images", a client "open" without a limit and a client "pool"
\* that shares the limit of "api".
GeneratedClients ==
  {<<[name |-> "api", rateLimit |-> limit,
      subClients |-> <<[name |-> "images", rateLimit |-> childLimit, subClients |-> <<>>]>>],
     [name |-> "open", rateLimit |-> openLimit, subClients |-> <<>>],
     [name |-> "pool", rateLimit |-> RateLimit("sharedLimit", 0, 0, "api"),
      subClients |-> <<>>]>> :
   limit \in {RateLimit("concurrencyLimit", m, 0, None) : m \in 1..GenMaxConcurrency}
             \cup {RateLimit("requestLimit", 0, GenMaxTokens, None)},
   childLimit \in {NoRateLimit, RateLimit("concurrencyLimit", 1, 0, None)},
   openLimit \in {NoRateLimit, RateLimit("noLimit", 0, 0, None)}}

mergeChildParentClients(child, parent) ==
  [name |-> parent.name \o ":" \o child.name,
   rateLimit |-> IF child.rateLimit = NoRateLimit THEN parent.rateLimit ELSE child.rateLimit,
   subClients |-> child.subClients]

resetClient(map, clientName) == [n \in DOMAIN map \ {clientName} |-> map[n]]

GenNoRequest == [requestId |-> 0, clientName |-> None, status |-> None, priority |-> 0,
                 timestamp |-> 0, cost |-> 0, retries |-> 0]

\* A createClient whose SharedLimitClient sends its requests under its own name.
createClientOwnName(map, data) ==
  LET type == IF data.rateLimit.type \in {"requestLimit", "concurrencyLimit",
                                          "sharedLimit", "noLimit"}
              THEN data.rateLimit.type ELSE "noLimit"
  IN (data.name :>
        [name |-> data.name, type |-> type,
         clientName |-> data.name,
         maxConcurrency |-> data.rateLimit.maxConcurrency,
         maxTokens |-> data.rateLimit.maxTokens, tokens |-> data.rateLimit.maxTokens,
         role |-> "worker", requests |-> <<>>, requestsHeartbeat |-> {},
         hasUnsortedRequests |-> FALSE, processingId |-> FALSE,
         request |-> GenNoRequest, addTokensInterval |-> FALSE]) @@ map

\* createClient: the client object of the class the rateLimit type selects,
\* after its constructor.  SharedLimitClient hands rateLimit.clientName to
\* the base constructor, the other classes the client's own name.
createClient(map, data) ==
  LET type == IF data.rateLimit.type \in {"requestLimit", "concurrencyLimit",
                                          "sharedLimit", "noLimit"}
              THEN data.rateLimit.type ELSE "noLimit"
  IN (data.name :>
        [name |-> data.name, type |-> type,
         clientName |-> IF type = "sharedLimit" THEN data.rateLimit.clientName
                        ELSE data.name,
         maxConcurrency |-> data.rateLimit.maxConcurrency,
         maxTokens |-> data.rateLimit.maxTokens, tokens |-> data.rateLimit.maxTokens,
         role |-> "worker", requests |-> <<>>, requestsHeartbeat |-> {},
         hasUnsortedRequests |-> FALSE, processingId |-> FALSE,
         request |-> GenNoRequest, addTokensInterval |-> FALSE]) @@ map

RECURSIVE generateClients(_, _, _)
generateClients(list, parent, map) ==
  IF list = <<>> THEN map
  ELSE LET data == IF parent # NoParent
                   THEN mergeChildParentClients(Head(list), parent)
                   ELSE Head(list)
           created == createClient(resetClient(map, data.name), data)
       IN generateClients(Tail(list), parent,
                          generateClients(data.subClients, data, created))

\* Request.getMetadata of the request of call id
callMetadata(id) ==
  [requestId |-> id, clientName |-> calls[id].clientName, status |-> calls[id].status,
   priority |-> 1, timestamp |-> 1, cost |-> 1, retries |-> 0]

\* The first test of waitForTurn in each class: NoLimitClient and
\* SharedLimitClient return at once.
waitForTurnReturns(c, cost) ==
  CASE c.type = "requestLimit" -> c.tokens >= cost
    [] c.type = "concurrencyLimit" ->
         c.maxConcurrency >= getRequestsInProgressCost(c.requests) + cost
    [] OTHER -> TRUE

\* What a handler of a generated client leaves behind: the client object and
\* the requestReady messages it published.
Done(c, pub) == [c |-> c, pub |-> pub]

RECURSIVE loop(_, _)
\* The loop of processRequests up to its end or to its suspension in
\* waitForTurn; the responses of this part are successes, so that no freeze
\* timer and no thaw request stops it.
loop(c, pub) ==
  LET c1 == getNextRequest(c)
      request == FirstInQueue(c1.requests)
      ready == [request EXCEPT !.status = "inProgress"]
  IN IF request.requestId = 0
     THEN Done([c1 EXCEPT !.processingId = FALSE], pub)
     ELSE IF waitForTurnReturns(c1, request.cost)
     THEN loop([c1 EXCEPT !.requests = MapSet(@, ready)], Append(pub, ready))
     ELSE Done([c1 EXCEPT !.request = request], pub)

\* The listener of waitForTokens or waitForConcurrency runs: when it
\* resolves, waitForTurn returns and the loop goes on with the request it held.
listener(c) ==
  IF c.request.requestId # 0 /\ waitForTurnReturns(c, c.request.cost)
  THEN LET ready == [c.request EXCEPT !.status = "inProgress"]
       IN loop([c EXCEPT !.tokens = IF c.type = "requestLimit"
                                     THEN @ - c.request.cost ELSE @,
                         !.requests = MapSet(@, ready),
                         !.request = GenNoRequest],
               <<ready>>)
  ELSE Done(c, <<>>)

genProcessRequests(c) ==
  IF c.role = "worker" \/ c.processingId \/ c.requests = <<>>
  THEN Done(c, <<>>)
  ELSE loop([c EXCEPT !.processingId = TRUE], <<>>)

genHandleRequestAdded(c, request) ==
  LET c1 == [c EXCEPT !.requests = MapSet(@, request),
                      !.requestsHeartbeat = @ \cup {request.requestId},
                      !.hasUnsortedRequests = TRUE]
  IN IF c1.role = "worker" THEN Done(c1, <<>>) ELSE genProcessRequests(c1)

genHandleRequestHeartbeat(c, request) ==
  IF request.requestId \in c.requestsHeartbeat THEN Done(c, <<>>)
  ELSE genHandleRequestAdded(c, request)

\* handleRequestDone of a success: no freeze, and no thaw request is set.
\* handleOwnTypeRequestDone of ConcurrencyLimitClient emits requestDone.
genHandleRequestDone(c, requestId) ==
  LET c1 == [c EXCEPT !.requests = MapDelete(@, requestId),
                      !.requestsHeartbeat = @ \ {requestId}]
  IN IF c1.role = "worker" \/ c1.type # "concurrencyLimit" THEN Done(c1, <<>>)
     ELSE listener(c1)

\* updateRole with the handleUpdateRole of each class: RequestLimitClient
\* starts the interval that adds tokens.
genUpdateRole(c, role) ==
  IF role = c.role THEN Done(c, <<>>)
  ELSE genProcessRequests(
         [c EXCEPT !.role = role,
                   !.addTokensInterval = @ \/ (c.type = "requestLimit" /\ role # "worker")])

\* RequestLimitClient.addTokens with tokensToAdd 1, and the tokensAdded it emits
genAddTokens(c) ==
  IF c.tokens = c.maxTokens THEN Done(c, <<>>)
  ELSE listener([c EXCEPT !.tokens = @ + 1])

\* The clients are generated; init publishes the rateLimit the client
\* already has.
GenerateClients ==
  /\ DOMAIN registry = {}
  /\ registry' = generateClients(generators, NoParent, registry)
  /\ UNCHANGED <<generators, calls, readyLog>>
  /\ UNCHANGED <<fleetVars, admitVars, retryVars, defaultsVars, callVars>>

\* The client of name clientName handled a message with result R, and the
\* requestReady messages it published are handled: handleRequestReady emits
\* requestReady:<id>, the listener of waitForRequestReady sets the status of
\* the request and handlePreRequest goes on to the HTTP call.
Handled(clientName, R, calls1) ==
  /\ registry' = [registry EXCEPT ![clientName] = R.c]
  /\ calls' = [id \in Call |->
                 IF calls1[id].phase = "waiting"
                    /\ \E k \in 1..Len(R.pub) : R.pub[k].requestId = id
                 THEN [calls1[id] EXCEPT !.phase = "executing", !.status = "inProgress"]
                 ELSE calls1[id]]
  /\ readyLog' = readyLog \cup {[requestId |-> R.pub[k].requestId,
                                 clientName |-> R.pub[k].clientName,
                                 publisher |-> R.c.name] : k \in 1..Len(R.pub)}
  /\ UNCHANGED generators
  /\ UNCHANGED <<fleetVars, admitVars, retryVars, defaultsVars, callVars>>

\* updateClientRoles makes the instance the controller of client n.
GenUpdateRole(n) ==
  /\ n \in DOMAIN registry
  /\ registry[n].role = "worker"
  /\ Handled(n, genUpdateRole(registry[n], "controller"), calls)

\* handleRequest of client n up to the HTTP call or to the wait for
\* requestReady: the request carries the name the client sends under, the
\* heartbeat interval is set, and waitForRequestReady publishes requestAdded
\* unless the client is of type noLimit.
GenHandleRequest(id, n) ==
  /\ n \in DOMAIN registry
  /\ calls[id].phase = "new"
  /\ LET clientName == registry[n].clientName
         request == [callMetadata(id) EXCEPT !.clientName = clientName,
                                             !.status = "inQueue"]
         call == [via |-> n, clientName |-> clientName, status |-> "inQueue",
                  beating |-> TRUE,
                  phase |-> IF registry[n].type = "noLimit" THEN "executing"
                            ELSE "waiting"]
         calls1 == [calls EXCEPT ![id] = call]
     IN IF registry[n].type = "noLimit" \/ clientName \notin DOMAIN registry
        THEN Handled(n, Done(registry[n], <<>>), calls1)
        ELSE Handled(clientName, genHandleRequestAdded(registry[clientName], request),
                     calls1)

\* The heartbeat interval of a request fires: requestHeartbeat is published
\* and the client of the request's clientName handles it.
GenRequestHeartbeat(id) ==
  /\ calls[id].beating
  /\ calls[id].clientName \in DOMAIN registry
  /\ Handled(calls[id].clientName,
             genHandleRequestHeartbeat(registry[calls[id].clientName], callMetadata(id)),
             calls)

\* The HTTP call succeeds: handleResponse clears the interval and publishes
\* requestDone.
GenRespond(id) ==
  /\ calls[id].phase = "executing"
  /\ calls[id].clientName \in DOMAIN registry
  /\ Handled(calls[id].clientName,
             genHandleRequestDone(registry[calls[id].clientName], id),
             [calls EXCEPT ![id].phase = "done", ![id].beating = FALSE])

\* The interval that adds tokens fires.
GenAddTokens(n) ==
  /\ n \in DOMAIN registry
  /\ registry[n].addTokensInterval
  /\ Handled(n, genAddTokens(registry[n]), calls)

NoCall == [via |-> None, clientName |-> None, status |-> None, beating |-> FALSE,
           phase |-> "new"]

InitGen ==
  /\ generators \in GeneratedClients
  /\ registry = [n \in {} |-> 0]
  /\ calls = [id \in Call |-> NoCall]
  /\ readyLog = {}

\* no client is generated
GenIdle ==
  /\ generators = <<>>
  /\ registry = [n \in {} |-> 0]
  /\ calls = [id \in Call |-> NoCall]
  /\ readyLog = {}

GenNames == {"api", "api:images", "open", "pool"}

NextGen ==
  \/ GenerateClients
  \/ \E n \in GenNames : GenUpdateRole(n) \/ GenAddTokens(n)
  \/ \E id \in Call : \E n \in GenNames : GenHandleRequest(id, n)
  \/ \E id \in Call : GenRequestHeartbeat(id) \/ GenRespond(id)

(***************************************************************************)
(* Part VII - the request defaults of a client                             *)
(***************************************************************************)

Keys == {"accept", "page"}

\* the property is undefined
Undefined == "undefined"

\* a headers or params property that is undefined
NoObject == [defined |-> FALSE, entries |-> [k \in {} |-> Undefined]]

\* the headers or params objects whose values are value, and undefined
Objects(value) ==
  {[defined |-> TRUE, entries |-> f] : f \in UNION {[ks -> {value}] : ks \in SUBSET Keys}}
    \cup {NoObject}

\* { ...a, ...b }, where spreading undefined adds nothing
Spread(a, b) == [defined |-> TRUE, entries |-> b.entries @@ a.entries]

\* The configs a caller may hand over and the defaults a client may have:
\* the caller's values are "caller", the defaults' values "default".
RequestConfigs ==
  [headers : Objects("caller"), params : Objects("caller"), baseURL : {"caller", Undefined}]

\* requestOptions.defaults is undefined
NoDefaults == [given |-> FALSE, headers |-> NoObject, params |-> NoObject,
               baseURL |-> Undefined]

RequestDefaults ==
  [given : {TRUE}, headers : Objects("default"), params : Objects("default"),
   baseURL : {"default", Undefined}] \cup {NoDefaults}

\* no Request is constructed
NotConstructed == [constructed |-> FALSE, headers |-> NoObject, params |-> NoObject,
                   baseURL |-> Undefined]

\* The constructor of Request, from the test of requestOptions.defaults on.
RequestConstructor ==
  /\ ~rdResult.constructed
  /\ rdResult' = IF ~rdDefaults.given
                 THEN [constructed |-> TRUE, headers |-> rdConfig.headers,
                       params |-> rdConfig.params, baseURL |-> rdConfig.baseURL]
                 ELSE [constructed |-> TRUE,
                       headers |-> Spread(rdConfig.headers, rdDefaults.headers),
                       params |-> Spread(rdConfig.params, rdDefaults.params),
                       baseURL |-> IF rdDefaults.baseURL # Undefined
                                   THEN rdDefaults.baseURL ELSE rdConfig.baseURL]
  /\ UNCHANGED <<rdConfig, rdDefaults>>
  /\ UNCHANGED <<fleetVars, admitVars, retryVars, genVars, callVars>>

\* Request.send of the class that keeps the client: handleRequestDefaults.
HandleRequestDefaults ==
  /\ ~rdResult.constructed
  /\ rdResult' = IF ~rdDefaults.given
                 THEN [constructed |-> TRUE, headers |-> rdConfig.headers,
                       params |-> rdConfig.params, baseURL |-> rdConfig.baseURL]
                 ELSE [constructed |-> TRUE,
                       headers |-> IF rdDefaults.headers.defined
                                   THEN Spread(rdConfig.headers, rdDefaults.headers)
                                   ELSE rdConfig.headers,
                       params |-> IF rdDefaults.params.defined
                                  THEN Spread(rdDefaults.params, rdConfig.params)
                                  ELSE rdConfig.params,
                       baseURL |-> IF rdDefaults.baseURL # Undefined
                                   THEN rdDefaults.baseURL ELSE rdConfig.baseURL]
  /\ UNCHANGED <<rdConfig, rdDefaults>>
  /\ UNCHANGED <<fleetVars, admitVars, retryVars, genVars, callVars>>

InitDefaults ==
  /\ rdConfig \in RequestConfigs
  /\ rdDefaults \in RequestDefaults
  /\ rdResult = NotConstructed

\* no request is constructed
DefaultsIdle ==
  /\ rdConfig = [headers |-> NoObject, params |-> NoObject, baseURL |-> Undefined]
  /\ rdDefaults = NoDefaults
  /\ rdResult = NotConstructed

NextDefaults == RequestConstructor \/ HandleRequestDefaults

(***************************************************************************)
(* Part VIII - a failure between admission and the HTTP call               *)
(***************************************************************************)

\* handlePreRequest throws after requestReady has come: the request
\* interceptor or authenticate (the refreshMethod of handleOAuth2) rejects.
\* handleRequest awaits handlePreRequest before its try: the error leaves
\* handleRequest, handleError does not run, the heartbeat interval is not
\* cleared and no requestDone is published.
PreRequestThrows(r) ==
  /\ req[r].phase = "executing"
  /\ net = <<>>
  /\ req' = [req EXCEPT ![r].phase = "threw"]
  /\ UNCHANGED <<limitType, reqAttr, client, net, failures, roleChanges, limitUpdates,
                 lastSelect, lastReady, readyCount>>
  /\ UNCHANGED thaw
  /\ UNCHANGED <<fleetVars, retryVars, laterVars>>

NextPre ==
  \/ NextThaw
  \/ \E r \in Req : PreRequestThrows(r)

\* The controller of the thaw, with originators that die: the heartbeats of
\* their requests lapse and the timers of the client fire.
ThawOriginatorDies(r) == OriginatorDiesWithin(r, MaxThawFailures)

NextLapse ==
  \/ NextThaw
  \/ \E r \in Req : ThawOriginatorDies(r)
  \/ \E r \in Req : RequestDied(r)

\* The controller of the thaw hands its role to a peer: the peer admits while
\* the client is a worker, and a loop of the client that was suspended in
\* waitForTurn before the handover goes on when its turn comes.
NextHandover ==
  \/ NextThaw
  \/ UpdateRole("worker")
  \/ \E r \in Req : PeerRequestReady(r)

(***************************************************************************)
(* Part IX - the client is destroyed                                       *)
(***************************************************************************)

\* handleDestroyClient: Client.destroy removes the interval that adds tokens
\* and the health check interval, and the client leaves the map of the
\* instance.  The role, the freeze timer, the timers of the request
\* heartbeats and a loop suspended in waitForTurn are left as they are.
DestroyClient ==
  /\ client.started
  /\ net = <<>>
  /\ client' = [client EXCEPT !.started = FALSE, !.addTokensInterval = FALSE,
                              !.healthCheckInterval = FALSE]
  /\ UNCHANGED <<limitType, reqAttr, net, failures, req, roleChanges, limitUpdates,
                 lastSelect, lastReady, readyCount>>
  /\ UNCHANGED thaw
  /\ UNCHANGED <<fleetVars, retryVars, laterVars>>

NextDestroy ==
  \/ NextThaw
  \/ DestroyClient
  \/ HealthCheck
  \/ \E r \in Req : RequestDied(r)

(***************************************************************************)
(* Part X - the public API of the instance and the changes of the client   *)
(* set: handleRequest, destroyClient, getClientStats, regenerateClients    *)
(***************************************************************************)

\* number of handleRequest calls suspended at one instance
MaxWaiting == 1

\* How a call ended, and whether the name was in the client map of the
\* instance when the call reached getClient.
Ended(op, i, c, result) ==
  [op |-> op, result |-> result, known |-> clients[i][c] # "absent"]

NoOutcome == [op |-> "none", result |-> "none", known |-> TRUE]

InitCalls ==
  /\ waiting = [i \in Inst |-> {}]
  /\ apiOutcome = NoOutcome

\* The handlers of regenerateClients and destroyClient do not compare the id
\* of the publisher: the message reaches every subscribed connection, the
\* publisher's own included.
Subscribers == {j \in Inst : subscribed[j] /\ running[j] # "crashed"}

\* The message is published while no connection has anything pending.
PublishAll(msg) ==
  /\ \A j \in Inst : fInbox[j] = <<>>
  /\ fInbox' = [j \in Inst |-> IF j \in Subscribers THEN Append(fInbox[j], msg) ELSE fInbox[j]]

\* RequestHandler.getClient throws when the name is not in the map.
getClientThrows(i, c) == clients[i][c] = "absent"

\* RequestHandler.handleRequest on a started instance: getClient, then the
\* handleRequest of the client.
HandleRequestStarted(i, c) ==
  /\ Up(i)
  /\ status[i] = "started"
  /\ waiting[i] = {}
  /\ apiOutcome' = Ended("handleRequest", i, c, IF getClientThrows(i, c) THEN "threw" ELSE "entered")
  /\ UNCHANGED waiting
  /\ UNCHANGED <<fleetVars, admitVars, retryVars, genVars, defaultsVars>>

\* handleRequest that rejects the call when the instance is not started.
HandleRequestRejected(i, c) ==
  /\ Up(i)
  /\ status[i] # "started"
  /\ apiOutcome' = [op |-> "handleRequest", result |-> "threw", known |-> TRUE]
  /\ UNCHANGED waiting
  /\ UNCHANGED <<fleetVars, admitVars, retryVars, genVars, defaultsVars>>

\* RequestHandler.handleRequest on an instance that is not started: the call
\* is suspended in waitUntilStarted.
HandleRequestNotStarted(i, c) ==
  /\ Up(i)
  /\ status[i] # "started"
  /\ Cardinality(waiting[i]) < MaxWaiting
  /\ waiting' = [waiting EXCEPT ![i] = @ \cup {c}]
  /\ apiOutcome' = [op |-> "handleRequest", result |-> "suspended", known |-> TRUE]
  /\ UNCHANGED <<fleetVars, admitVars, retryVars, genVars, defaultsVars>>

HandleRequestCall(i, c) == HandleRequestStarted(i, c) \/ HandleRequestNotStarted(i, c)

\* start has emitted instanceStarted: the promise of waitUntilStarted
\* resolves and handleRequest goes on with getClient.
WaitUntilStartedResolves(i, c) ==
  /\ Up(i)
  /\ status[i] = "started"
  /\ c \in waiting[i]
  /\ waiting' = [waiting EXCEPT ![i] = @ \ {c}]
  /\ apiOutcome' = Ended("waitUntilStarted", i, c, IF getClientThrows(i, c) THEN "threw" ELSE "entered")
  /\ UNCHANGED <<fleetVars, admitVars, retryVars, genVars, defaultsVars>>

\* RequestHandler.getClientStats
GetClientStats(i, c) ==
  /\ Up(i)
  /\ apiOutcome' = Ended("getClientStats", i, c, IF getClientThrows(i, c) THEN "threw" ELSE "returned")
  /\ UNCHANGED waiting
  /\ UNCHANGED <<fleetVars, admitVars, retryVars, genVars, defaultsVars>>

\* destroyClient with the publish placed before getClient.
DestroyClientPublishesFirst(i, c) ==
  /\ Up(i)
  /\ apiOutcome' = Ended("destroyClient", i, c, IF getClientThrows(i, c) THEN "threw" ELSE "published")
  /\ PublishAll([type |-> "destroyClient", clientName |-> c])
  /\ UNCHANGED waiting
  /\ UNCHANGED <<status, running, subscribed, clients, heartbeatTimeouts,
                 heartbeatInterval, redisInstances, redisInstance>>
  /\ UNCHANGED <<faults, stops>>
  /\ UNCHANGED <<admitVars, retryVars, genVars, defaultsVars>>

\* RequestHandler.destroyClient: getClient, then the publish.
DestroyClientCall(i, c) ==
  /\ Up(i)
  /\ IF getClientThrows(i, c)
     THEN apiOutcome' = Ended("destroyClient", i, c, "threw") /\ UNCHANGED fInbox
     ELSE apiOutcome' = Ended("destroyClient", i, c, "published") /\ PublishAll([type |-> "destroyClient", clientName |-> c])
  /\ UNCHANGED waiting
  /\ UNCHANGED <<status, running, subscribed, clients, heartbeatTimeouts,
                 heartbeatInterval, redisInstances, redisInstance>>
  /\ UNCHANGED <<faults, stops>>
  /\ UNCHANGED <<admitVars, retryVars, genVars, defaultsVars>>

\* RequestHandler.regenerateClients, of every generator.
RegenerateClientsCall(i) ==
  /\ Up(i)
  /\ apiOutcome' = [op |-> "regenerateClients", result |-> "published", known |-> TRUE]
  /\ PublishAll([type |-> "regenerateClients"])
  /\ UNCHANGED waiting
  /\ UNCHANGED <<status, running, subscribed, clients, heartbeatTimeouts,
                 heartbeatInterval, redisInstances, redisInstance>>
  /\ UNCHANGED <<faults, stops>>
  /\ UNCHANGED <<admitVars, retryVars, genVars, defaultsVars>>

\* handleDestroyClient: getClient throws on an instance without the client;
\* otherwise the client is destroyed and deleted from the map.  Nothing else
\* is done: no updateClientRoles, no registration.
HandleDestroyClient(i) ==
  /\ Handles(i, "destroyClient")
  /\ clients' = [clients EXCEPT ![i][Head1(i).clientName] = "absent"]
  /\ fInbox' = Pop(i)
  /\ UNCHANGED <<status, running, subscribed, heartbeatTimeouts,
                 heartbeatInterval, redisInstances, redisInstance>>
  /\ UNCHANGED <<faults, stops>>
  /\ UNCHANGED <<admitVars, retryVars, laterVars>>

\* createClients of every generator: the default client and the generated
\* clients are reset and created again, as workers; the others stay.
createClients(i) ==
  [c \in ClientNames |-> IF c \in Generates(i) \cup {"default"} THEN "worker" ELSE clients[i][c]]

\* handleRegenerateClients: createClients, then updateClientRoles.
HandleRegenerateClients(i) ==
  /\ Handles(i, "regenerateClients")
  /\ updateClientRoles(i, FALSE, createClients(i), Pop(i))
  /\ UNCHANGED <<status, running, subscribed, heartbeatTimeouts>>
  /\ UNCHANGED <<faults, stops>>
  /\ UNCHANGED <<admitVars, retryVars, laterVars>>

\* The client set of the instances changes.
NextClients ==
  \E i \in Inst :
    \/ Start(i)
    \/ HandleInstanceStarted(i)
    \/ HandleInstanceUpdated(i)
    \/ \E c \in ClientNames : DestroyClientCall(i, c)
    \/ RegenerateClientsCall(i)
    \/ HandleDestroyClient(i)
    \/ HandleRegenerateClients(i)

\* The calls of the public API that look the client up.
NextCalls ==
  \E i \in Inst :
    \/ Start(i)
    \/ HandleInstanceStarted(i)
    \/ HandleInstanceUpdated(i)
    \/ \E c \in ClientNames : HandleRequestCall(i, c)
    \/ \E c \in ClientNames : WaitUntilStartedResolves(i, c)
    \/ \E c \in ClientNames : GetClientStats(i, c)
    \/ \E c \in ClientNames : DestroyClientCall(i, c)
    \/ HandleDestroyClient(i)

vars == <<fleetVars, admitVars, retryVars, laterVars>>

\* A started instance whose process runs.
Live(i) == status[i] = "started" /\ Up(i)

Controllers(c) == {i \in Inst : Live(i) /\ clients[i][c] = "controller"}

\* Nothing is left to happen in the fleet: every published message is handled,
\* no instance is stalled, every key that still exists is being refreshed,
\* every armed heartbeat timer is being refreshed and every heartbeating
\* instance is known to every running subscriber.
Quiescent ==
  /\ \A i \in Inst : running[i] # "stalled"
  /\ \A i \in Inst : Up(i) => fInbox[i] = <<>>
  /\ \A i \in Inst : redisInstance[i].present => Heartbeating(i)
  /\ \A i \in Inst : Up(i) => \A id \in heartbeatTimeouts[i] : Heartbeating(id)
  /\ \A i \in Inst : (Up(i) /\ subscribed[i]) =>
        \A id \in Inst \ {i} : Heartbeating(id) => id \in heartbeatTimeouts[i]

\* C1: at quiescence at most one started instance is controller of a client.
C1_OneControllerAtQuiescence ==
  Quiescent => \A c \in ClientNames : Cardinality(Controllers(c)) <= 1

\* no handleRequest call is made
RetryIdle ==
  /\ retryConfig = [maxRetries |-> NotGiven, retry429s |-> NotGiven, retry5xxs |-> NotGiven]
  /\ hrPc = "idle" /\ hrRetries = 0 /\ hrExecutions = 0 /\ hrLast = NoRetryData

FleetInit == InitFleet /\ AdmitIdle /\ RetryIdle /\ GenIdle /\ DefaultsIdle /\ InitCalls

AdmitInit == InitFleet /\ InitAdmit /\ RetryIdle /\ GenIdle /\ DefaultsIdle /\ InitCalls

RetryInit == InitFleet /\ AdmitIdle /\ InitRetry /\ GenIdle /\ DefaultsIdle /\ InitCalls

SpecFleet == FleetInit /\ [][NextFleet]_vars

SpecAdmit == AdmitInit /\ [][NextAdmit]_vars

SpecRetry == RetryInit /\ [][NextRetry]_vars

ThawInit == InitFleet /\ InitThaw /\ RetryIdle /\ GenIdle /\ DefaultsIdle /\ InitCalls

SpecThaw == ThawInit /\ [][NextThaw]_vars

GenInit == InitFleet /\ AdmitIdle /\ RetryIdle /\ InitGen /\ DefaultsIdle /\ InitCalls

SpecGen == GenInit /\ [][NextGen]_vars

DefaultsInit == InitFleet /\ AdmitIdle /\ RetryIdle /\ GenIdle /\ InitDefaults /\ InitCalls

SpecDefaults == DefaultsInit /\ [][NextDefaults]_vars

SpecPre == ThawInit /\ [][NextPre]_vars

SpecDestroy == ThawInit /\ [][NextDestroy]_vars

SpecLapse == ThawInit /\ [][NextLapse]_vars

SpecHandover == ThawInit /\ [][NextHandover]_vars

SpecClients == FleetInit /\ [][NextClients]_vars

SpecCalls == FleetInit /\ [][NextCalls]_vars

\* C6: one handleRequest call performs at most maxRetries + 1 HTTP executions,
\* maxRetries being the configured value, or 3 when none is configured.
C6_AtMostMaxRetriesPlusOne ==
  hrExecutions <= (IF retryConfig.maxRetries.given
                   THEN retryConfig.maxRetries.val ELSE DefaultMaxRetries) + 1


\* The started, running instances that register client c.
Survivors(c) == {j \in Inst : Live(j) /\ clients[j][c] # "absent"}

\* The first of them in the ownership order.
TopSurvivor(c) == CHOOSE j \in Survivors(c) : \A k \in Survivors(c) \ {j} : SortsBefore(j, k)

\* C8: once the controller of c has crashed and nothing is left to happen
\* (its key has run out, no timer for it is armed, no message is pending), the
\* highest-ordered surviving instance that registers c is controller of c.
C8_SurvivorTakesOver ==
  \A c \in ClientNames :
    \A i \in Inst :
      (Quiescent /\ running[i] = "crashed" /\ clients[i][c] = "controller"
         /\ Survivors(c) # {})
      => clients[TopSurvivor(c)][c] = "controller"

\* C2: every requestReady the client publishes for a request of cost k under a
\* token bucket comes with a decrease of the tokens by exactly k.
C2_AdmissionConsumesTokens ==
  (limitType = "requestLimit" /\ lastReady # NoReady) => lastReady.paid = lastReady.cost

\* C3: under a concurrency limit the in-progress cost in the controller's map
\* is at most maxConcurrency.
C3_InProgressWithinMaxConcurrency ==
  (limitType = "concurrencyLimit" /\ client.role = "controller")
    => getRequestsInProgressCost(client.requests) <= client.maxConcurrency

C5_SelectsRankedFirst ==
  lastSelect # NoSelect => (lastSelect.first /\ lastSelect.status = "inQueue")

\* The loop holds request 2, selected while request 1 was in the queue before it.
C5_Witness ==
  /\ lastSelect # NoSelect
  /\ client.pc = "waitForTurn"
  /\ client.request.requestId = 2
  /\ Len(client.requests) = 2
  /\ \A k \in 1..2 : client.requests[k].status = "inQueue"

\* C7: for each requestAdded of a request (requestId and retry count),
\* requestReady is published at most once in the fleet.
C7_ReadyAtMostOnce ==
  \A r \in Req : \A k \in 0..DefaultMaxRetries : readyCount[r][k] <= 1

\* C9: the client publishes requestReady only while its role is controller.
C9_PublishedByController ==
  lastReady # NoReady => lastReady.role = "controller"

\* C10: the client publishes no requestReady while a freeze timer is armed.
C10_NoReadyWhileFrozen ==
  lastReady # NoReady => ~lastReady.frozen

\* The controller is frozen with a request in the queue that would have its
\* turn, and its loop has stopped.
C10_Witness ==
  /\ client.role = "controller"
  /\ client.freezeTimeout
  /\ ~client.processingId
  /\ FirstInQueue(client.requests) # NoRequest
  /\ limitType = "concurrencyLimit"
  /\ TurnIsFree(client, FirstInQueue(client.requests).cost)

\* C11: while thawRequestCount > 0 the client releases no request while a
\* request it released during thaw is outstanding (its requestDone was not
\* handled yet).
C11_OneThawRequestOutstanding == ~thaw.overlap

\* A request released during thaw is outstanding and another request waits in
\* the map of the controller.
C11_Witness ==
  /\ client.role = "controller"
  /\ client.thawRequestCount > 0
  /\ thaw.outstanding # {}
  /\ \E k \in 1..Len(client.requests) :
        /\ client.requests[k].status = "inQueue"
        /\ client.requests[k].requestId \notin thaw.outstanding
  /\ ~client.freezeTimeout
  /\ net = <<>>

\* C12: once a rate-limited freeze has armed the thaw counter, the counter
\* comes back to 0 only on thawRequestCount thaw requests that succeeded in
\* a row.
C12_ResumesAfterSuccessesInARow == ~thaw.early

\* The originator of a request died, the controller has discarded the request,
\* and a queued request that fits in the capacity is left with nothing to
\* admit it: no message is pending, no request executes (no requestDone can
\* come), no freeze timer is armed, no thaw request is awaited and the loop
\* is not between two publications.
StaleStuck ==
  /\ client.started /\ client.role = "controller"
  /\ limitType = "concurrencyLimit"
  /\ net = <<>>
  /\ ~client.freezeTimeout /\ client.thawRequestId = 0
  /\ client.pc \in {"idle", "waitForTurn"}
  /\ \A r \in Req : req[r].phase \notin {"executing", "retrying"}
  /\ \E r \in Req : /\ req[r].phase = "dead"
                     /\ r \notin client.requestsHeartbeat
                     /\ ~MapHas(client.requests, r)
  /\ FirstInQueue(client.requests) # NoRequest
  /\ req[FirstInQueue(client.requests).requestId].phase = "waiting"
  /\ TurnIsFree(client, FirstInQueue(client.requests).cost)

\* C13: once the controller has discarded the request of a dead originator,
\* a queued request that fits in the freed capacity is admitted: the
\* controller is never left with such a request and nothing to admit it.
C13_StaleRequestFreesSlot == ~StaleStuck

\* C14: a sub-client that declares no rateLimit is admitted against the
\* limiter of its parent: the cost in progress of the requests of "api" and of
\* "api:images" together never exceeds the maxConcurrency of "api".
C14_SubClientSharesParentLimiter ==
  (/\ DOMAIN registry # {}
   /\ generators[1].rateLimit.type = "concurrencyLimit"
   /\ generators[1].subClients[1].rateLimit = NoRateLimit)
  => getRequestsInProgressCost(registry["api"].requests)
       + getRequestsInProgressCost(registry["api:images"].requests)
       <= generators[1].rateLimit.maxConcurrency
\* C15: once the defaults are applied, every header and every param the
\* caller's config gave, and the baseURL it gave, still has the caller's
\* value; the defaults fill only what the caller left unset.
C15_CallerConfigWinsOverDefaults ==
  rdResult.constructed =>
    /\ rdConfig.baseURL # Undefined => rdResult.baseURL = rdConfig.baseURL
    /\ \A k \in DOMAIN rdConfig.headers.entries :
         rdResult.headers.entries[k] = rdConfig.headers.entries[k]
    /\ \A k \in DOMAIN rdConfig.params.entries :
         rdResult.params.entries[k] = rdConfig.params.entries[k]
\* C16 as claimed: the status of a request never goes from inProgress back to
\* inQueue, its retries included.
C16_StatusNeverBackToQueue ==
  [][\A r \in Req : req[r].status = "inProgress" => req'[r].status # "inQueue"]_vars

\* C16: the status of a request goes from inProgress back to inQueue only
\* when handleRequest starts a retry of it: the attempt before has failed, its
\* requestDone is published and the retries are counted up.
C16_BackToQueueOnlyOnRetry ==
  [][\A r \in Req :
       (req[r].status = "inProgress" /\ req'[r].status = "inQueue")
         => (req[r].phase = "retrying" /\ req[r].retries > 0 /\ ~req[r].beating
             /\ req'[r].phase = "waiting" /\ req'[r].retries = req[r].retries)]_vars

C16_Witness ==
  \E r \in Req : /\ req[r].retries > 0
                 /\ req[r].phase = "waiting"
                 /\ req[r].status = "inQueue"
                 /\ MapHas(client.requests, r)
\* C17: at quiescence the controller of every client that some started
\* instance registers is the one instance that is first, by priority
\* descending then id descending, among the started instances that register it.
C17_ControllerIsFirstInOrder ==
  Quiescent =>
    \A c \in ClientNames : Survivors(c) # {} => Controllers(c) = {TopSurvivor(c)}
\* C18: a request sent through a client of type noLimit is in the request
\* map of no client and no requestReady is published for it.
C18_NoLimitNeverQueued ==
  \A id \in Call :
    (calls[id].via # None /\ registry[calls[id].via].type = "noLimit")
    => /\ \A n \in DOMAIN registry : ~MapHas(registry[n].requests, id)
       /\ \A e \in readyLog : e.requestId # id
C20_PreRequestFailureReleases ==
  \A r \in Req :
    req[r].phase = "threw"
    => /\ ~req[r].beating
       /\ net = <<>> => ~MapHas(client.requests, r)

\* C21: an instance that was stopped and not started again runs no heartbeat
\* interval and has no registration key in Redis.
C21_StoppedInstanceIsSilent ==
  \A i \in Inst :
    (status[i] = "stopped" /\ Up(i))
    => (~heartbeatInterval[i] /\ ~redisInstance[i].present)

\* C22: while the client is not in the map of the instance, no timer of the
\* client object acts: the object stays as it is and publishes no requestReady.
C22_DestroyedClientIsInert ==
  [][(~client.started /\ ~client'.started)
       => (client' = client /\ readyCount' = readyCount)]_vars

\* C22, the requestReady alone: a client that is not in the map of the
\* instance publishes no requestReady.
C22_DestroyedClientPublishesNothing ==
  [][(~client.started /\ ~client'.started) => readyCount' = readyCount]_vars

\* C23: on every started instance the client map holds the client "default".
C23_DefaultClientAlwaysExists ==
  \A i \in Inst : (status[i] = "started" /\ Up(i)) => clients[i]["default"] # "absent"

\* The instances that are started, with nothing pending on any connection.
ClientsQuiescent ==
  /\ \A i \in Inst : fInbox[i] = <<>>
  /\ \E i \in Inst : status[i] = "started"

\* C30: once nothing is pending, the registeredClients persisted for a
\* started instance are the names of its client map.
C30_RegistrationFollowsClientSet ==
  ClientsQuiescent =>
    \A i \in Inst :
      status[i] = "started"
      => (/\ redisInstance[i].present
          /\ redisInstance[i].registeredClients = {c \in ClientNames : clients[i][c] # "absent"})

\* C24: a call of handleRequest, destroyClient or getClientStats with a name
\* that is not in the client map of the instance ends with the error of
\* getClient, and a call that ends with this error publishes nothing and
\* leaves the state of the instances as it was.
C24_UnknownClientIsAnError ==
  [][apiOutcome' # apiOutcome
       => /\ ~apiOutcome'.known => apiOutcome'.result = "threw"
          /\ apiOutcome'.result = "threw" => UNCHANGED fleetVars]_vars

C24_Witness ==
  /\ apiOutcome.result = "threw"
  /\ ~apiOutcome.known
  /\ \E i \in Inst : status[i] = "started" /\ clients[i]["default"] = "absent"

C26_RetryFlagsAreHonoured ==
  /\ retryConfig.retry429s = Given(FALSE) => ~hrLast.isRateLimited
  /\ hrPc = "http" =>
       \A o \in Outcomes :
         LET data == handleRetry(retryOptions, hrRetries, o)
         IN /\ (retryConfig.retry429s = Given(FALSE) /\ o.status = 429) => ~data.retry
            /\ (retryConfig.retry5xxs = Given(FALSE) /\ o.status >= 500) => ~data.retry
            /\ (retryConfig.retry429s # Given(FALSE) /\ o.status = 429
                  /\ hrRetries < retryOptions.maxRetries)
               => (data.retry /\ data.isRateLimited)

NextIsAdmissible(c) ==
  LET request == FirstInQueue(getNextRequest(c).requests)
  IN /\ request # NoRequest
     /\ limitType = "concurrencyLimit"
          => c.maxConcurrency >= getRequestsInProgressCost(c.requests) + request.cost

\* C27: when the freeze timer fires on the controller, no thaw request is
\* open and the next request in the queue is admissible, then the step that
\* handles the timer leaves a loop under way: the loop is in one of its two
\* publications (of the tokens it took, of requestReady), or (request limit)
\* it waits for the tokens the running interval adds.  No requestAdded and no requestDone is needed.
C27_FreezeTimerResumesAdmission ==
  [][(/\ client.freezeTimeout /\ ~client'.freezeTimeout
      /\ client'.started /\ client'.role = "controller"
      /\ client.thawRequestId = 0
      /\ NextIsAdmissible(client))
     => \/ client'.pc \in {"tokensPublish", "readyPublish"}
        \/ /\ client'.pc = "waitForTurn"
           /\ limitType = "requestLimit"
           /\ client'.addTokensInterval]_vars

\* A loop of the client is on its way to an admission: it is in one of its
\* publications, or it waits for tokens the running interval adds, or it
\* waits for room that the requests in progress take.
LoopUnderWay(c) ==
  \/ c.pc \in {"tokensPublish", "readyPublish"}
  \/ /\ c.pc = "waitForTurn"
     /\ \/ limitType = "requestLimit" /\ c.addTokensInterval
        \/ limitType = "concurrencyLimit" /\ ~TurnIsFree(c, c.request.cost)
             /\ getRequestsInProgressCost(c.requests) > 0

Capacity(c) == IF limitType = "requestLimit" THEN MaxTokens ELSE c.maxConcurrency

\* C31: once the client has handled a rateLimitUpdated message of its own
\* type, it works under the parameters of the message: the capacity is the
\* published one and the tokens do not exceed it.
C31_RateLimitUpdateIsApplied ==
  [][(/\ Receives("rateLimitUpdated")
      /\ client.started
      /\ Head(net).data.limitType = limitType)
     => /\ Capacity(client') = Head(net).data.max
        /\ limitType = "requestLimit" => client'.tokens <= Head(net).data.max]_vars

C33_WorkerHasNoTokenTicker ==
  client.role = "worker" => ~client.addTokensInterval

\* C34: a stopped instance has no client that acts as controller, that is, no
\* client in role controller that is still handed the requestAdded messages.
C34_StoppedInstanceAdmitsNothing ==
  \A i \in Inst :
    (status[i] = "stopped" /\ Up(i))
    => \A c \in ClientNames : ~(subscribed[i] /\ clients[i][c] = "controller")

\* C35: the thaw request of a controller is in its map of requests, with
\* status inProgress.
C35_ThawRequestIsInProgress ==
  (client.started /\ client.role = "controller" /\ client.thawRequestId # 0)
  => \E k \in 1..Len(client.requests) :
       /\ client.requests[k].requestId = client.thawRequestId
       /\ client.requests[k].status = "inProgress"

\* C36: tokens are taken only for admissions. When the controller has taken a
\* request's cost from the tokens in waitForTurn, the same iteration of the
\* loop publishes requestReady for that request; it does not end the loop
\* with the tokens taken and nothing published.
C36_TokensPaidAreAdmitted ==
  [][(client.pc = "tokensPublish" /\ client'.pc # "tokensPublish")
     => /\ client'.pc = "readyPublish"
        /\ lastReady'.requestId = client.request.requestId
        /\ lastReady'.paid = client.request.cost]_vars

\* C37: a running instance that keeps publishing heartbeats is listed in the
\* set of instances and its registration key exists once nothing is left to
\* happen in the fleet, also after its key ran out or a peer took its id from
\* the set while it was stalled.
C37_HeartbeatingInstanceIsRegistered ==
  Quiescent =>
    \A i \in Inst : (Heartbeating(i) /\ status[i] = "started")
      => (i \in redisInstances /\ redisInstance[i].present)

\* C38: the listener of waitForRequestReady is released by a requestReady
\* that answers the requestAdded of the attempt that waits: the requestReady
\* that moves a waiting request to its HTTP execution carries the retry count
\* of that attempt, not the one of an earlier attempt of the same request id.
C38_ReadyAnswersOwnAttempt ==
  [][(/\ Receives("requestReady")
      /\ req[Head(net).data.requestId].phase = "waiting"
      /\ req'[Head(net).data.requestId].phase = "executing")
     => Head(net).data.retries = req[Head(net).data.requestId].retries]_vars

\* The loop of the controller is suspended in waitForTurn for a request whose
\* cost is larger than the capacity: the listener of waitForTurn resolves only
\* when the capacity covers the cost, which no refill and no requestDone
\* brings about, so the loop stays there.
WaitsForOversized(c) ==
  /\ c.started /\ c.role = "controller"
  /\ ~c.freezeTimeout /\ c.thawRequestId = 0
  /\ c.pc = "waitForTurn"
  /\ c.request.cost > Capacity(c)

\* C39: under a live, unfrozen controller a queued request whose cost is at
\* most the capacity is admitted although another queued request has a cost
\* larger than the capacity: the loop of the controller is never left waiting
\* for the turn of the oversized request while a request that fits the
\* capacity, whose originator waits for requestReady, is in the queue.
C39_OversizedRequestDoesNotBlock ==
  WaitsForOversized(client) =>
    \A k \in 1..Len(client.requests) :
      ~(/\ client.requests[k].status = "inQueue"
        /\ client.requests[k].cost <= Capacity(client)
        /\ req[client.requests[k].requestId].phase = "waiting")

\* The messages of one type in an inbox.
CountOf(inb, type) == Cardinality({k \in 1..Len(inb) : inb[k].type = type})

\* The step publishes a message of the type.
Publishes(type) ==
  \E j \in Inst : CountOf(fInbox'[j], type) > CountOf(fInbox[j], type)

\* A step of the recomputation of ownership: instanceUpdated is published or
\* a started instance gives a client another role.
CascadeStep ==
  \/ Publishes("instanceUpdated")
  \/ \E i \in Inst : \E c \in ClientNames :
       /\ clients[i][c] # "absent" /\ clients'[i][c] # "absent"
       /\ clients'[i][c] # clients[i][c]

\* The membership of the fleet or the client set of an instance changes: an
\* instance starts, stops, crashes, stalls or resumes, a key runs out, or
\* destroyClient or regenerateClients is called.
MembershipChange ==
  \/ status' # status
  \/ running' # running
  \/ \E i \in Inst : redisInstance[i].present /\ ~redisInstance'[i].present
  \/ Publishes("destroyClient")
  \/ Publishes("regenerateClients")

\* C40: the recomputation of ownership that follows a change of the
\* membership or of a client set ends: a behaviour in which instanceUpdated
\* is published or roles change again and again is one in which the
\* membership or the client sets change again and again.
C40_CascadeTerminates ==
  []<><<CascadeStep>>_vars => []<><<MembershipChange>>_vars

\* A recomputation is under way: an instance that was made worker of all its
\* clients by a message has published instanceUpdated, and a peer has yet to
\* handle it.
C40_Witness ==
  \E i \in Inst : \E j \in Inst \ {i} :
    /\ Live(i) /\ Up(j)
    /\ \A c \in ClientNames : clients[i][c] # "controller"
    /\ \E k \in 1..Len(fInbox[j]) :
         fInbox[j][k].type = "instanceUpdated" /\ fInbox[j][k].id = i
====
